---- MODULE Spec2Model ----
(***************************************************************************)
(* A model of react-headless-formatter: the Tokenizer of                   *)
(* src/src/helpers/tokenizer.ts, run as a state machine whose steps are    *)
(* the iterations of its two loops (the `while` of parseContent and the    *)
(* `for (;;)` of parseAttributes) and the returns of its recursive calls,  *)
(* and the component of src/src/index.ts, whose render parses its text     *)
(* with a new Tokenizer and formats the tokens (src/src/helpers/format.ts).*)
(*                                                                         *)
(* Texts are TLA+ strings; offsets are 0-based as in the source.           *)
(* A text token is [text |-> s]; a tag token is                            *)
(* [tag |-> s, attrs |-> <<[name, value], ...>>, children |-> <<...>>].    *)
(* attrs keeps the insertion order of the JavaScript object.               *)
(***************************************************************************)
EXTENDS Integers, Sequences, FiniteSets, TLC

VARIABLES
  text,     \* Tokenizer.text: the text to parse
  offset,   \* Tokenizer.offset: characters already processed
  tags,     \* Tokenizer.tags: stack of open tags
  calls,    \* the JavaScript call stack: parseContent / parseTag activations
  status,   \* "idle" | "parsing" | "done" | "thrown"
  result,   \* the value parse returned
  last,     \* history: what the last step did, and the parity of the steps
  failure,  \* history: the 'Malformed attribute' errors of this parse
  config,   \* createTextFormat's config
  props,    \* the props of the last render of TextFormat
  hooks,    \* what config.hooks returned in the last render
  output,   \* formattedText: what the last render returned
  handlerCalls,  \* history: the handler calls of the last render, in order
  previous, \* history: the children and the tokens of the render before
  hookCalls, \* history: how many times the last render called config.hooks
  fresh,    \* history: the first parse of a Tokenizer that is used again
  childrenArg,  \* the argument of a call of getOnlyPlainTextChild
  returned  \* what that call returned or threw

component == <<config, props, hooks, output, handlerCalls, previous, hookCalls,
               fresh, childrenArg, returned>>
vars == <<text, offset, tags, calls, status, result, last, failure, component>>

(***************************************************************************)
(* Bounds of the model.                                                    *)
(***************************************************************************)
\* Longest input of the nesting family, in pieces.
MaxPieces == 4
\* Longest input of the character family, in characters.
MaxChars == 4
\* Longest input checked for termination, in pieces or characters.
MaxLivePieces == 2
\* Longest attribute list of the attribute family, in pieces.
MaxAttrPieces == 4
\* How far past the end of the text the cursor is followed before it is
\* held (a JavaScript number stops growing at 2^53, where n + 1 = n).
MaxOvershoot == 2
\* Longest text the component is rendered with, in pieces.
MaxFormatPieces == 2
\* Most attributes of a tag of the attribute value family.
MaxAttributes == 3

(***************************************************************************)
(* Characters and the constants of tokenizer.ts                            *)
(***************************************************************************)
LowerCaseLetters == "abcdefghijklmnopqrstuvwxyz"
UpperCaseLetters == "ABCDEFGHIJKLMNOPQRSTUVWXYZ"
Digits == "0123456789"

CharsOf(s) == {SubSeq(s, i, i) : i \in 1..Len(s)}

\* What reading text[i] outside the string gives.
Undefined == "undefined"

TAG_START == "<"
CLOSING_TAG_START == "</"
TAG_END == ">"
SELF_CLOSING_TAG_END == "/>"
ATTR_ASSIGN == "="
VALUE_QUOTES == "'\""

\* A RegExp that is one character class: [chars] or, negated, [^chars].
WhiteSpace == {" ", "\t", "\n", "\r", "\f"}
SPACE == [neg |-> FALSE, chars |-> WhiteSpace]
SPACE_AND_CLOSING_TAGS == [neg |-> FALSE, chars |-> WhiteSpace \cup {"/", ">"}]
TAG_NAME_ALLOWED_CHARS ==
  [neg |-> FALSE,
   chars |-> CharsOf(LowerCaseLetters) \cup CharsOf(UpperCaseLetters)
               \cup CharsOf(Digits) \cup {".", "_", "-"}]
\* An attribute name class that leaves out the quotes and `<` as well.
ATTR_NAME_WITHOUT_QUOTES ==
  [neg |-> TRUE, chars |-> WhiteSpace \cup {"=", "/", ">", "'", "\"", "<"}]

ATTR_NAME_ALLOWED_CHARS ==
  [neg |-> TRUE, chars |-> WhiteSpace \cup {"=", "/", ">"}]
ATTR_NAME_ALLOWED_CHARS_AND_CLOSING_TAGS ==
  [neg |-> TRUE, chars |-> WhiteSpace \cup {"="}]

\* A string given where the source passes a string to skip / skipTo.
Str(s) == [str |-> s]

(***************************************************************************)
(* JavaScript string primitives                                            *)
(***************************************************************************)
Min(a, b) == IF a < b THEN a ELSE b
Max(a, b) == IF a > b THEN a ELSE b

\* text[i]
CharAt(t, i) == IF i >= 0 /\ i < Len(t) THEN SubSeq(t, i + 1, i + 1) ELSE Undefined

\* String.prototype.substring(start, end): both clamped to the string, and
\* swapped when start > end.
substring(t, start, end) ==
  LET s == Min(Max(start, 0), Len(t))
      e == Min(Max(end, 0), Len(t))
  IN SubSeq(t, Min(s, e) + 1, Max(s, e))

\* String.prototype.indexOf(word, from) === from, for a non-empty word.
StartsWithAt(t, word, from) ==
  /\ from >= 0
  /\ from + Len(word) <= Len(t)
  /\ SubSeq(t, from + 1, from + Len(word)) = word

\* String.prototype.includes(c), the argument converted to a string.
Includes(s, c) ==
  \E i \in 0..(Len(s) - Len(c)) : SubSeq(s, i + 1, i + Len(c)) = c

\* RegExp.prototype.test(c) for a one-character class, the argument
\* converted to a string (undefined becomes "undefined").
RegExpTest(re, c) ==
  \E i \in 1..Len(c) : (SubSeq(c, i, i) \in re.chars) # re.neg

UpperCaseChar(c) ==
  IF c \in CharsOf(LowerCaseLetters)
  THEN LET i == CHOOSE j \in 1..Len(LowerCaseLetters) :
                   SubSeq(LowerCaseLetters, j, j) = c
       IN SubSeq(UpperCaseLetters, i, i)
  ELSE c

\* String.prototype.toUpperCase, character by character.
toUpperCase(s) ==
  LET upTo[i \in 0..Len(s)] ==
        IF i = 0 THEN "" ELSE upTo[i - 1] \o UpperCaseChar(SubSeq(s, i, i))
  IN upTo[Len(s)]

(***************************************************************************)
(* The scanning helpers of the Tokenizer, as functions of the text and the *)
(* cursor that return the new cursor.                                      *)
(***************************************************************************)
\* charsToSkip[method](c): `includes` for a string, `test` for a RegExp.
Matches(charsToSkip, c) ==
  IF "str" \in DOMAIN charsToSkip
  THEN Includes(charsToSkip.str, c)
  ELSE RegExpTest(charsToSkip, c)

\* skip(charsToSkip, inverse): the loop, from the cursor o.
skip(t, o, charsToSkip, inverse) ==
  LET from[i \in 0..Len(t)] ==
        IF i < Len(t) /\ (Matches(charsToSkip, CharAt(t, i)) # inverse)
        THEN from[i + 1]
        ELSE i
  IN IF o < Len(t) THEN from[o] ELSE o

skipTo(t, o, charsToFind) == skip(t, o, charsToFind, TRUE)

nextStringIs(t, o, word) == StartsWithAt(t, word, o)

isValidTag(t, o, tag) ==
  LET nextChar == CharAt(t, o + Len(tag))
  IN IF ~RegExpTest(TAG_NAME_ALLOWED_CHARS, nextChar)
     THEN [valid |-> FALSE, offset |-> o + 1]
     ELSE [valid |-> TRUE, offset |-> o + Len(tag)]

\* A parseTagName that keeps the name as written.
parseTagNameAsWritten(t, o) ==
  LET startOffset == skipTo(t, o, TAG_NAME_ALLOWED_CHARS)
      end == skip(t, startOffset, TAG_NAME_ALLOWED_CHARS, FALSE)
  IN [name |-> substring(t, startOffset, end), offset |-> end]

parseTagName(t, o) ==
  LET startOffset == skipTo(t, o, TAG_NAME_ALLOWED_CHARS)
      end == skip(t, startOffset, TAG_NAME_ALLOWED_CHARS, FALSE)
  IN [name |-> toUpperCase(substring(t, startOffset, end)), offset |-> end]

\* this.offset++ where nothing stops the cursor from leaving the text: the
\* cursor is followed MaxOvershoot characters past the end and then held.
Increment(t, o) == IF o >= Len(t) + MaxOvershoot THEN o ELSE o + 1

\* The outcome of parseAttribute: the attribute read (found), nothing
\* (an invalid character was skipped) or the 'Malformed attribute' error.
AttrResult(o, found, threw, name, value) ==
  [offset |-> o, found |-> found, threw |-> threw, name |-> name, value |-> value]

\* A parseAttributeValue whose quoted value ends at either quote character.
parseAttributeValueAnyQuote(t, o, name) ==
  LET quote == CharAt(t, o)
  IN IF Includes(VALUE_QUOTES, quote)
     THEN LET valueStart == o + 1
              end == skipTo(t, valueStart, Str(VALUE_QUOTES))
          IN IF end = Len(t)
             THEN AttrResult(end, FALSE, TRUE, name, "")
             ELSE AttrResult(end + 1, TRUE, FALSE, name, substring(t, valueStart, end))
     ELSE LET end == skipTo(t, o, SPACE_AND_CLOSING_TAGS)
          IN AttrResult(end, TRUE, FALSE, name, substring(t, o, end))

\* A parseAttributeValue whose unquoted value ends at whitespace only.
parseAttributeValueToSpace(t, o, name) ==
  LET quote == CharAt(t, o)
  IN IF Includes(VALUE_QUOTES, quote)
     THEN LET valueStart == o + 1
              end == skipTo(t, valueStart, Str(quote))
          IN IF end = Len(t)
             THEN AttrResult(end, FALSE, TRUE, name, "")
             ELSE AttrResult(end + 1, TRUE, FALSE, name, substring(t, valueStart, end))
     ELSE LET end == skipTo(t, o, SPACE)
          IN AttrResult(end, TRUE, FALSE, name, substring(t, o, end))

parseAttributeValue(t, o, name) ==
  LET quote == CharAt(t, o)
  IN IF Includes(VALUE_QUOTES, quote)
     THEN LET valueStart == o + 1
              end == skipTo(t, valueStart, Str(quote))
          IN IF end = Len(t)
             THEN AttrResult(end, FALSE, TRUE, name, "")
             ELSE AttrResult(end + 1, TRUE, FALSE, name, substring(t, valueStart, end))
     ELSE LET end == skipTo(t, o, SPACE_AND_CLOSING_TAGS)
          IN AttrResult(end, TRUE, FALSE, name, substring(t, o, end))

\* A parseAttribute that gives a flag the value "true".
parseAttributeFlagTrue(t, o) ==
  LET nameStart == o
      nameEnd == skip(t, o, ATTR_NAME_ALLOWED_CHARS, FALSE)
      name == substring(t, nameStart, nameEnd)
      afterName == skip(t, nameEnd, SPACE, FALSE)
  IN IF nameEnd = nameStart
     THEN AttrResult(Increment(t, o), FALSE, FALSE, "", "")
     ELSE IF ~nextStringIs(t, afterName, ATTR_ASSIGN)
     THEN AttrResult(afterName, TRUE, FALSE, name, "true")
     ELSE parseAttributeValue(
            t, skip(t, afterName + Len(ATTR_ASSIGN), SPACE, FALSE), name)

parseAttribute(t, o) ==
  LET nameStart == o
      nameEnd == skip(t, o, ATTR_NAME_ALLOWED_CHARS, FALSE)
      name == substring(t, nameStart, nameEnd)
      afterName == skip(t, nameEnd, SPACE, FALSE)
  IN IF nameEnd = nameStart
     THEN AttrResult(Increment(t, o), FALSE, FALSE, "", "")
     ELSE IF ~nextStringIs(t, afterName, ATTR_ASSIGN)
     THEN AttrResult(afterName, TRUE, FALSE, name, "")
     ELSE parseAttributeValue(
            t, skip(t, afterName + Len(ATTR_ASSIGN), SPACE, FALSE), name)

\* attrs[name] = value on a JavaScript object: a new key goes last, an
\* existing key keeps its place.
SetAttr(attrs, name, value) ==
  IF \E i \in 1..Len(attrs) : attrs[i].name = name
  THEN [i \in 1..Len(attrs) |->
          IF attrs[i].name = name THEN [name |-> name, value |-> value] ELSE attrs[i]]
  ELSE Append(attrs, [name |-> name, value |-> value])

\* this.tags.lastIndexOf(tagName), 0-based, -1 when absent.
lastIndexOf(stack, tagName) ==
  IF \E i \in 1..Len(stack) : stack[i] = tagName
  THEN (CHOOSE i \in 1..Len(stack) :
          /\ stack[i] = tagName
          /\ \A j \in (i + 1)..Len(stack) : stack[j] # tagName) - 1
  ELSE -1

(***************************************************************************)
(* Tokens and call frames                                                  *)
(***************************************************************************)
TextToken(s) == [text |-> s]
TagToken(tag, attrs, children) == [tag |-> tag, attrs |-> attrs, children |-> children]

\* Tokenizer.isTextToken: typeof token === 'string'
isTextToken(token) == "text" \in DOMAIN token

\* An activation of parseContent: its locals `content` and `startOffset`.
ContentFrame(startOffset) ==
  [fn |-> "parseContent", content |-> <<>>, startOffset |-> startOffset]
\* An activation of parseTag: its local `tag`, and the `attrs` that
\* parseAttributes has collected so far.  pos is bookkeeping: the place
\* of this tag's entry in this.tags, this.tags.length after the push.
TagFrame(tag, pos) == [fn |-> "parseTag", tag |-> tag, attrs |-> <<>>, pos |-> pos]

Top == calls[Len(calls)]
InContent == status = "parsing" /\ Len(calls) > 0 /\ Top.fn = "parseContent"
InAttributes == status = "parsing" /\ Len(calls) > 0 /\ Top.fn = "parseTag"

\* A parseContent that does not push the text scanned before a tag.
FlushNothing(frame, contentEndOffset) == frame.content

\* content.push(text.substring(startOffset, contentEndOffset)) when there
\* is text between the two.
Flush(frame, contentEndOffset) ==
  IF contentEndOffset > frame.startOffset
  THEN Append(frame.content,
              TextToken(substring(text, frame.startOffset, contentEndOffset)))
  ELSE frame.content

\* The token forest the activations of `cs` hold between them: what parse
\* would return if each of them returned now, adding nothing more.
Folded(cs) ==
  LET from[i \in 1..(Len(cs) + 1)] ==
        IF i > Len(cs) THEN <<>>
        ELSE IF cs[i].fn = "parseContent" THEN cs[i].content \o from[i + 1]
        ELSE <<TagToken(cs[i].tag, cs[i].attrs, from[i + 1])>>
  IN from[1]

(***************************************************************************)
(* Returns and the exception                                               *)
(***************************************************************************)
\* while (this.tags.length > tagIndex) this.tags.pop()
popTags(stack, tagIndex) == SubSeq(stack, 1, tagIndex)

\* parseTag's `children`: none for a self-closed tag, else what the
\* recursive parseContent returned.
tagChildren(selfClosed, content) == IF selfClosed THEN <<>> ELSE content

\* A parseContent that does not move startOffset past the tag.
afterParseTagSameStart(caller, tagContent, o) ==
  [caller EXCEPT !.content = @ \o tagContent]

\* The caller's frame after `const tagContent = this.parseTag();
\* tagContent && content.push(tagContent); startOffset = this.offset`.
\* tagContent is a sequence: empty for undefined, else the one token.
afterParseTag(caller, tagContent, o) ==
  [caller EXCEPT !.content = @ \o tagContent, !.startOffset = o]

\* A parseTag that returns no token for a tag that has content.
returnContentNoToken(cs, content, o) ==
  LET n == Len(cs)
  IN Append(SubSeq(cs, 1, n - 3), afterParseTag(cs[n - 2], <<>>, o))

\* The call stack once the parseContent on top of `cs` has returned
\* `content` with the cursor at o: the parseTag below it returns its token
\* to the parseContent that called it.  (When `cs` holds the top-level
\* parseContent alone, parse returns: see Finish.)
returnContent(cs, content, o) ==
  LET n == Len(cs)
      tagFrame == cs[n - 1]
      token == TagToken(tagFrame.tag, tagFrame.attrs, tagChildren(FALSE, content))
  IN Append(SubSeq(cs, 1, n - 3), afterParseTag(cs[n - 2], <<token>>, o))

\* A parseTag that parses content for a self-closed tag too.
afterAttributesWithContent(cs, selfClosed, o) == Append(cs, ContentFrame(o))

\* parseTag after parseAttributes, with the cursor at o: a self-closed tag
\* returns its token, with no children, to the parseContent that called
\* parseTag; any other tag calls parseContent for its children.
afterAttributes(cs, selfClosed, o) ==
  LET n == Len(cs)
      token == TagToken(cs[n].tag, cs[n].attrs, tagChildren(selfClosed, <<>>))
  IN IF selfClosed
     THEN Append(SubSeq(cs, 1, n - 2), afterParseTag(cs[n - 1], <<token>>, o))
     ELSE Append(cs, ContentFrame(o))

\* A parseTag without its try / catch.
catchesNothing(frame) == FALSE

\* Whether an activation catches what is thrown inside it: parseTag wraps
\* its body in try / catch, parseContent does not.
catches(frame) == frame.fn = "parseTag"

\* The call stack an exception thrown in the top activation leaves: the
\* activations up to the innermost one that catches it, none when no
\* activation does.
unwind(cs) ==
  LET catching == {i \in 1..Len(cs) : catches(cs[i])}
  IN IF catching = {} THEN <<>>
     ELSE SubSeq(cs, 1, CHOOSE i \in catching : \A j \in catching : j <= i)

Step(op) == [op |-> op, turn |-> 1 - last.turn]

(***************************************************************************)
(* parse                                                                   *)
(***************************************************************************)
\* parse(text): a call on an instance that is not in the middle of a parse.
parse ==
  /\ status \in {"idle", "done"}
  /\ offset' = 0
  /\ tags' = <<>>
  /\ calls' = <<ContentFrame(0)>>
  /\ status' = "parsing"
  /\ result' = <<>>
  /\ last' = [op |-> "parse", turn |-> 0]
  /\ failure' = <<>>
  /\ UNCHANGED <<component, text>>

\* Before a Tokenizer is used a second time.
NoParse == [undefined |-> TRUE]
\* Before getOnlyPlainTextChild is called.
NotCalled == [pending |-> TRUE]

\* A parse that leaves this.tags as the parse before left it.
parseTextKeepsTags(newText) ==
  /\ status = "done"
  /\ text' = newText
  /\ offset' = 0
  /\ tags' = tags
  /\ calls' = <<ContentFrame(0)>>
  /\ status' = "parsing"
  /\ result' = <<>>
  /\ last' = [op |-> "parse", turn |-> 0]
  /\ failure' = <<>>
  /\ fresh' = [text |-> IF fresh = NoParse THEN text ELSE fresh.text,
               tokens |-> IF fresh = NoParse THEN result ELSE fresh.tokens,
               stale |-> tags]
  /\ UNCHANGED <<config, props, hooks, output, handlerCalls, previous, hookCalls,
                 childrenArg, returned>>

\* parse(newText) on a Tokenizer whose parse has returned before: text,
\* offset and tags are set anew.  The history keeps the input and the
\* result of the first parse, and the stack the parse before left.
parseText(newText) ==
  /\ status = "done"
  /\ text' = newText
  /\ offset' = 0
  /\ tags' = <<>>
  /\ calls' = <<ContentFrame(0)>>
  /\ status' = "parsing"
  /\ result' = <<>>
  /\ last' = [op |-> "parse", turn |-> 0]
  /\ failure' = <<>>
  /\ fresh' = [text |-> IF fresh = NoParse THEN text ELSE fresh.text,
               tokens |-> IF fresh = NoParse THEN result ELSE fresh.tokens,
               stale |-> tags]
  /\ UNCHANGED <<config, props, hooks, output, handlerCalls, previous, hookCalls,
                 childrenArg, returned>>

\* The parseContent on top returns `content`.
Finish(content, o, newTags, op) ==
  /\ offset' = o
  /\ tags' = newTags
  /\ last' = Step(op)
  /\ UNCHANGED <<component, text, failure>>
  /\ IF Len(calls) = 1
     THEN /\ calls' = <<>>
          /\ status' = "done"
          /\ result' = content
     ELSE /\ calls' = returnContent(calls, content, o)
          /\ UNCHANGED <<status, result>>

\* The parseContent on top goes round its loop again.
Continue(frame, o, op) ==
  /\ offset' = o
  /\ calls' = [calls EXCEPT ![Len(calls)] = frame]
  /\ last' = Step(op)
  /\ UNCHANGED <<component, text, tags, status, result, failure>>

(***************************************************************************)
(* parseContent: one iteration of its while loop, or its end               *)
(***************************************************************************)
\* A closing-tag branch that leaves startOffset where it was: what it
\* scans past stays in the text to be flushed.
ClosingTagScanKeepsText ==
  LET valid == isValidTag(text, offset, CLOSING_TAG_START)
      name == parseTagName(text, valid.offset)
      end == skipTo(text, name.offset, Str(TAG_END)) + Len(TAG_END)
  IN [validTag |-> valid.valid,
      tagName |-> name.name,
      offset |-> end,
      frame |-> Top]

\* A closing-tag branch that stops behind the tag name: what stands
\* between the name and the `>` is text again.
ClosingTagScanStopsAtName ==
  LET valid == isValidTag(text, offset, CLOSING_TAG_START)
      name == parseTagName(text, valid.offset)
      end == name.offset
  IN [validTag |-> valid.valid,
      tagName |-> name.name,
      offset |-> end,
      frame |-> [Top EXCEPT !.content = Flush(Top, offset), !.startOffset = end]]

\* What the closing-tag branch computes before it decides.
ClosingTagScan ==
  LET valid == isValidTag(text, offset, CLOSING_TAG_START)
      name == parseTagName(text, valid.offset)
      end == skipTo(text, name.offset, Str(TAG_END)) + Len(TAG_END)
  IN [validTag |-> valid.valid,
      tagName |-> name.name,
      offset |-> end,
      frame |-> [Top EXCEPT !.content = Flush(Top, offset), !.startOffset = end]]

AtClosingTag ==
  InContent /\ offset < Len(text) /\ nextStringIs(text, offset, CLOSING_TAG_START)

\* `</` not followed by a tag name character: skipped up to the next `>`.
ClosingTagInvalid ==
  /\ AtClosingTag
  /\ \E scan \in {ClosingTagScan} :
       /\ ~scan.validTag
       /\ Continue(scan.frame, scan.offset, "ClosingTagInvalid")

\* A closing tag whose name is not on the stack of open tags.
ClosingTagUnopened ==
  /\ AtClosingTag
  /\ \E scan \in {ClosingTagScan} :
       /\ scan.validTag
       /\ lastIndexOf(tags, scan.tagName) = -1
       /\ Continue(scan.frame, scan.offset, "ClosingTagUnopened")

\* A closing tag whose name is on the stack: the stack is popped down
\* through it and this parseContent returns.
ClosingTagMatched ==
  /\ AtClosingTag
  /\ \E scan \in {ClosingTagScan} :
       /\ scan.validTag
       /\ lastIndexOf(tags, scan.tagName) # -1
       /\ Finish(scan.frame.content, scan.offset,
                 popTags(tags, lastIndexOf(tags, scan.tagName)),
                 "ClosingTagMatched")

AtOpeningTag ==
  /\ InContent /\ offset < Len(text)
  /\ ~nextStringIs(text, offset, CLOSING_TAG_START)
  /\ nextStringIs(text, offset, TAG_START)

\* `<` not followed by a tag name character: it stays in the text.
OpeningTagInvalid ==
  /\ AtOpeningTag
  /\ ~isValidTag(text, offset, TAG_START).valid
  /\ Continue(Top, isValidTag(text, offset, TAG_START).offset, "OpeningTagInvalid")

\* An opening tag: the text before it is flushed, parseTag is entered, it
\* reads the name, pushes it on the stack and enters parseAttributes.
OpeningTag ==
  /\ AtOpeningTag
  /\ isValidTag(text, offset, TAG_START).valid
  /\ \E name \in {parseTagName(text, isValidTag(text, offset, TAG_START).offset)} :
        /\ offset' = name.offset
        /\ tags' = Append(tags, name.name)
        /\ calls' = Append([calls EXCEPT ![Len(calls)].content = Flush(Top, offset)],
                           TagFrame(name.name, Len(tags) + 1))
  /\ last' = Step("OpeningTag")
  /\ UNCHANGED <<component, text, status, result, failure>>

RegularCharacter ==
  /\ InContent /\ offset < Len(text)
  /\ ~nextStringIs(text, offset, CLOSING_TAG_START)
  /\ ~nextStringIs(text, offset, TAG_START)
  /\ Continue(Top, offset + 1, "RegularCharacter")

\* A parseContent that returns without the leftover text.
leftoversDropped(frame) == frame.content

\* The text is finished: the leftover text is added and the content is
\* returned.
leftovers(frame) ==
  IF frame.startOffset < Len(text)
  THEN Append(frame.content, TextToken(substring(text, frame.startOffset, Len(text))))
  ELSE frame.content

EndOfText ==
  /\ InContent /\ offset >= Len(text)
  /\ Finish(leftovers(Top), offset, tags, "EndOfText")

(***************************************************************************)
(* parseAttributes: one iteration of its for (;;) loop                     *)
(***************************************************************************)
\* The cursor after `this.skipTo(ATTR_NAME_ALLOWED_CHARS_AND_CLOSING_TAGS)`.
AttrStart == skipTo(text, offset, ATTR_NAME_ALLOWED_CHARS_AND_CLOSING_TAGS)

\* `>`: the attributes are over, parseTag calls parseContent for the
\* children.
TagEnd ==
  /\ InAttributes
  /\ nextStringIs(text, AttrStart, TAG_END)
  /\ \E o \in {AttrStart + Len(TAG_END)} :
       /\ offset' = o
       /\ calls' = afterAttributes(calls, FALSE, o)
  /\ last' = Step("TagEnd")
  /\ UNCHANGED <<component, text, tags, status, result, failure>>

\* `/>`: the tag is self-closed, parseTag returns its token at once.
SelfClosingTagEnd ==
  /\ InAttributes
  /\ ~nextStringIs(text, AttrStart, TAG_END)
  /\ nextStringIs(text, AttrStart, SELF_CLOSING_TAG_END)
  /\ \E o \in {AttrStart + Len(SELF_CLOSING_TAG_END)} :
       /\ offset' = o
       /\ calls' = afterAttributes(calls, TRUE, o)
  /\ last' = Step("SelfClosingTagEnd")
  /\ UNCHANGED <<component, text, tags, status, result, failure>>

AtAttribute ==
  /\ InAttributes
  /\ ~nextStringIs(text, AttrStart, TAG_END)
  /\ ~nextStringIs(text, AttrStart, SELF_CLOSING_TAG_END)

\* parseAttribute returns an attribute, or nothing.
Attribute ==
  /\ AtAttribute
  /\ \E res \in {parseAttribute(text, AttrStart)} :
        /\ ~res.threw
        /\ offset' = res.offset
        /\ calls' = [calls EXCEPT ![Len(calls)].attrs =
                       IF res.found THEN SetAttr(@, res.name, res.value) ELSE @]
        /\ last' = Step(IF res.found THEN "Attribute" ELSE "NoAttribute")
  /\ UNCHANGED <<component, text, tags, status, result, failure>>

\* parseAttribute throws 'Malformed attribute': the activations are
\* unwound to the one that catches it, parseTag, which returns undefined.
MalformedAttribute ==
  /\ AtAttribute
  /\ \E res \in {parseAttribute(text, AttrStart)}, left \in {unwind(calls)} :
        /\ res.threw
        /\ offset' = res.offset
        /\ IF Len(left) = 0
           THEN /\ calls' = <<>>
                /\ status' = "thrown"
           ELSE /\ calls' = Append(SubSeq(left, 1, Len(left) - 2),
                                   afterParseTag(left[Len(left) - 1], <<>>, res.offset))
                /\ UNCHANGED status
  /\ last' = Step("MalformedAttribute")
  /\ failure' = Append(failure, [error |-> "Malformed attribute",
                                 tag |-> Top.tag,
                                 before |-> Folded(SubSeq(calls, 1, Len(calls) - 1))])
  /\ UNCHANGED <<component, text, tags, result>>

(***************************************************************************)
(* JavaScript objects and React elements                                   *)
(*                                                                         *)
(* An object is the sequence of its [name, value] entries in insertion     *)
(* order; a property that is undefined is a field the record lacks.  A     *)
(* string that is a React node is [text |-> s], as a text token is; an     *)
(* array of nodes is [array |-> <<...>>].                                  *)
(***************************************************************************)
Has(record, field) == field \in DOMAIN record
\* {}: an object with no property the model reads.
EmptyObject == [constructor |-> "Object"]

\* obj[key], Undefined when the object has no such key.  (The keys looked
\* up are upper-cased tag names, which no property of Object.prototype
\* is.)
Get(obj, key) ==
  IF \E i \in 1..Len(obj) : obj[i].name = key
  THEN obj[CHOOSE i \in 1..Len(obj) : obj[i].name = key].value
  ELSE Undefined

\* A key that is an array index, "0", "1", "2", ... up to 2^32 - 2 in its
\* canonical decimal form: Object.entries lists these keys first, in
\* ascending numeric order, before the other keys in insertion order.
MaxArrayIndex == "4294967294"
DigitsLess(a, b) ==
  \E i \in 1..Len(a) :
     /\ SubSeq(a, 1, i - 1) = SubSeq(b, 1, i - 1)
     /\ \E m, n \in 1..Len(Digits) :
          /\ SubSeq(Digits, m, m) = SubSeq(a, i, i)
          /\ SubSeq(Digits, n, n) = SubSeq(b, i, i)
          /\ m < n
IndexLess(a, b) == Len(a) < Len(b) \/ (Len(a) = Len(b) /\ DigitsLess(a, b))
IsArrayIndex(key) ==
  /\ Len(key) > 0
  /\ \A i \in 1..Len(key) : SubSeq(key, i, i) \in CharsOf(Digits)
  /\ Len(key) = 1 \/ SubSeq(key, 1, 1) # "0"
  /\ ~IndexLess(MaxArrayIndex, key)

ObjectEntries(obj) ==
  LET indices == {i \in 1..Len(obj) : IsArrayIndex(obj[i].name)}
      rank(i) == 1 + Cardinality({j \in indices : IndexLess(obj[j].name, obj[i].name)})
      ordered == [k \in 1..Cardinality(indices) |->
                    obj[CHOOSE i \in indices : rank(i) = k]]
      others == {i \in 1..Len(obj) : i \notin indices}
      inOrder[i \in 0..Len(obj)] ==
        IF i = 0 THEN <<>>
        ELSE IF i \in others THEN Append(inOrder[i - 1], obj[i])
        ELSE inOrder[i - 1]
  IN ordered \o inOrder[Len(obj)]

Fragment == "Fragment"
createElement(type, elementProps, children) ==
  [type |-> type, props |-> elementProps, children |-> children]
Array(nodes) == [array |-> nodes]
isArray(value) == Has(value, "array")

(***************************************************************************)
(* src/src/index.ts: createTextFormat                                      *)
(***************************************************************************)
\* const keepUnknownTags = Boolean(config.keepUnknownTags)
keepUnknownTagsOf(c) == Has(c, "keepUnknownTags") /\ c.keepUnknownTags

\* The text handler used when config.textHandler is undefined:
\* (index, text) => createElement(Fragment, { key: index }, text)
DefaultTextHandler == "(index, text) => createElement(Fragment, { key: index }, text)"
textHandlerOf(c) == IF Has(c, "textHandler") THEN c.textHandler ELSE DefaultTextHandler

defaultTagHandlerOf(c) ==
  IF Has(c, "defaultTagHandler") THEN c.defaultTagHandler ELSE Undefined

\* A transformTagHandlers that keeps the tag names as they are given.
tagHandlersAsGiven(c) ==
  IF ~Has(c, "tagHandlers") THEN <<>> ELSE ObjectEntries(c.tagHandlers)

\* Every tag name of config.tagHandlers in upper case: a handler whose
\* upper-cased name is already there takes that entry's place.
transformTagHandlers(c) ==
  IF ~Has(c, "tagHandlers") THEN <<>>
  ELSE LET entries == ObjectEntries(c.tagHandlers)
           acc[i \in 0..Len(entries)] ==
             IF i = 0 THEN <<>>
             ELSE SetAttr(acc[i - 1], toUpperCase(entries[i].name), entries[i].value)
       IN acc[Len(entries)]

\* const hooks = getHooks?.(): what a hooks function may return, an array.
HookValues == {Array(<<"state 1">>), Array(<<"state 2">>)}
NoHooks == [undefined |-> TRUE]
getHooks(c) == IF Has(c, "hooks") THEN HookValues ELSE {NoHooks}

\* The dependencies of useMemo: [props.children, ...(hooks || [])]
Children(p) == IF Has(p, "children") THEN <<p.children>> ELSE <<>>
memoDeps(p, h) == <<Children(p), IF isArray(h) THEN h.array ELSE <<>>>>

(***************************************************************************)
(* src/src/helpers/format.ts                                               *)
(*                                                                         *)
(* A handler of the config is a function the model knows nothing of: its   *)
(* call returns an element that is the record of the call.  format and     *)
(* formatToken give the element they return together with the calls of     *)
(* handlers they made, in order.                                           *)
(***************************************************************************)
\* A handler call that is not given the hooks.
HandlerCallWithoutHooks(handler, index, data, hooksValue) ==
  [handler |-> handler, index |-> index, data |-> data, hooks |-> NoHooks]

HandlerCall(handler, index, data, hooksValue) ==
  [handler |-> handler, index |-> index, data |-> data, hooks |-> hooksValue]

CallHandler(handler, index, data, hooksValue) ==
  IF handler = DefaultTextHandler
  THEN createElement(Fragment, [key |-> index], data)
  ELSE HandlerCall(handler, index, data, hooksValue)

Rendered(elem, made) == [elem |-> elem, calls |-> made]

attrsToString(attrs) ==
  LET entries == ObjectEntries(attrs)
      joined[i \in 0..Len(entries)] ==
        IF i = 0 THEN ""
        ELSE joined[i - 1] \o (IF i > 1 THEN " " ELSE "")
             \o entries[i].name \o "=\"" \o entries[i].value \o "\""
  IN joined[Len(entries)]

InlinePre(key) == [key |-> key, style |-> [display |-> "inline"]]

\* A tagTokenToString that writes a tag with no children as an open tag.
tagTokenToStringOpenOnly(tag, attrs, children, index) ==
  LET attrsText == attrsToString(attrs)
      content == TAG_START \o tag
                 \o (IF attrsText # "" THEN " " \o attrsText ELSE "") \o TAG_END
      openTag == createElement("pre", InlinePre(0), TextToken(content))
  IN createElement(Fragment, [key |-> index],
                   Array(<<openTag, Array(children), TextToken("")>>))

tagTokenToString(tag, attrs, children, index) ==
  LET attrsText == attrsToString(attrs)
      content == TAG_START \o tag
                 \o (IF attrsText # "" THEN " " \o attrsText ELSE "")
                 \o (IF Len(children) > 0 THEN ">"
                     ELSE IF Len(attrsText) > 0 THEN " />" ELSE "/>")
      openTag == createElement("pre", InlinePre(0), TextToken(content))
      closeTag == IF Len(children) > 0
                  THEN createElement("pre", InlinePre(2),
                                     TextToken(CLOSING_TAG_START \o tag \o TAG_END))
                  ELSE TextToken("")
  IN createElement(Fragment, [key |-> index],
                   Array(<<openTag, Array(children), closeTag>>))

\* A formatToken that tries the default tag handler first.
defaultTagFirst(handler, defaultTag) ==
  IF defaultTag # Undefined THEN defaultTag ELSE handler

\* A formatToken that never calls the default tag handler.
registeredHandlerOnly(handler, defaultTag) == handler

\* if (handler) ... else if (defaultTag) ...: the handler that renders a
\* tag, Undefined when there is none.
tagHandlerFor(handler, defaultTag) ==
  IF handler # Undefined THEN handler ELSE defaultTag

\* A formatToken that drops the children of a tag it does not render.
unknownTagWithoutChildren(keepUnknownTags, token, elems, index) ==
  IF keepUnknownTags
  THEN tagTokenToString(token.tag, token.attrs, elems, index)
  ELSE createElement(Fragment, [key |-> index], Array(<<>>))

\* What formatToken returns for a tag that no handler renders.
unknownTag(keepUnknownTags, token, elems, index) ==
  IF keepUnknownTags
  THEN tagTokenToString(token.tag, token.attrs, elems, index)
  ELSE createElement(Fragment, [key |-> index], Array(elems))

RECURSIVE format(_, _, _, _, _, _, _)
RECURSIVE formatToken(_, _, _, _, _, _, _)

\* A map that gives every token the index 0.
mapFormatIndexZero(plainText, handlers, defaultTag, keepUnknownTags, tokens, hooksValue) ==
  LET each == [i \in 1..Len(tokens) |->
                 format(plainText, handlers, defaultTag, keepUnknownTags,
                        tokens[i], 0, hooksValue)]
      made[i \in 0..Len(tokens)] ==
        IF i = 0 THEN <<>> ELSE made[i - 1] \o each[i].calls
  IN [elems |-> [i \in 1..Len(tokens) |-> each[i].elem], calls |-> made[Len(tokens)]]

\* A map that formats the tokens from right to left.
mapFormatRightToLeft(plainText, handlers, defaultTag, keepUnknownTags, tokens, hooksValue) ==
  LET each == [i \in 1..Len(tokens) |->
                 format(plainText, handlers, defaultTag, keepUnknownTags,
                        tokens[i], i - 1, hooksValue)]
      made[i \in 0..Len(tokens)] ==
        IF i = 0 THEN <<>> ELSE each[i].calls \o made[i - 1]
  IN [elems |-> [i \in 1..Len(tokens) |-> each[i].elem], calls |-> made[Len(tokens)]]

\* tokens.map((token, index) => format(..., token, index, hooks))
mapFormat(plainText, handlers, defaultTag, keepUnknownTags, tokens, hooksValue) ==
  LET each == [i \in 1..Len(tokens) |->
                 format(plainText, handlers, defaultTag, keepUnknownTags,
                        tokens[i], i - 1, hooksValue)]
      made[i \in 0..Len(tokens)] ==
        IF i = 0 THEN <<>> ELSE made[i - 1] \o each[i].calls
  IN [elems |-> [i \in 1..Len(tokens) |-> each[i].elem], calls |-> made[Len(tokens)]]

format(plainText, handlers, defaultTag, keepUnknownTags, tokens, index, hooksValue) ==
  IF ~isArray(tokens)
  THEN formatToken(plainText, handlers, defaultTag, keepUnknownTags,
                   tokens, index, hooksValue)
  ELSE LET mapped == mapFormat(plainText, handlers, defaultTag, keepUnknownTags,
                               tokens.array, hooksValue)
       IN Rendered(createElement(Fragment, [key |-> index], Array(mapped.elems)),
                   mapped.calls)

formatToken(plainText, handlers, defaultTag, keepUnknownTags, token, index, hooksValue) ==
  IF isTextToken(token)
  THEN Rendered(createElement(Fragment, [key |-> index],
                              CallHandler(plainText, index, token, hooksValue)),
                <<HandlerCall(plainText, index, token, hooksValue)>>)
  ELSE LET handler == Get(handlers, token.tag)
           mapped == mapFormat(plainText, handlers, defaultTag, keepUnknownTags,
                               token.children, hooksValue)
           tagData == [name |-> token.tag,
                       children |-> mapped.elems,
                       attrs |-> token.attrs]
           chosen == tagHandlerFor(handler, defaultTag)
       IN IF chosen # Undefined
          THEN Rendered(CallHandler(chosen, index, tagData, hooksValue),
                        Append(mapped.calls,
                               HandlerCall(chosen, index, tagData, hooksValue)))
          ELSE Rendered(unknownTag(keepUnknownTags, token, mapped.elems, index),
                        mapped.calls)

(***************************************************************************)
(* src/src/index.ts: the component TextFormat                              *)
(***************************************************************************)
NoOutput == [undefined |-> TRUE]
NoRender == [undefined |-> TRUE]
Pending == [pending |-> TRUE]
isElement(value) == Has(value, "type") \/ Has(value, "handler")

\* The text with no `|| ''`: String(undefined) when there are no children.
textOfChildren(p) == IF Has(p, "children") THEN p.children ELSE "undefined"

\* const text = props.children || ''
textOf(p) == IF Has(p, "children") /\ p.children # "" THEN p.children ELSE ""

\* A render of TextFormat begins: the hooks are called and, unless useMemo
\* has the result for the same dependencies, a new Tokenizer starts to
\* parse props.children || ''.
TextFormat(newProps) ==
  /\ status \in {"idle", "done"}
  /\ output # Pending
  /\ \E newHooks \in getHooks(config) :
        /\ isElement(output) => memoDeps(newProps, newHooks) # memoDeps(props, hooks)
        /\ hooks' = newHooks
  /\ props' = newProps
  /\ text' = textOf(newProps)
  /\ offset' = 0
  /\ tags' = <<>>
  /\ calls' = <<ContentFrame(0)>>
  /\ status' = "parsing"
  /\ result' = <<>>
  /\ last' = [op |-> "TextFormat", turn |-> 0]
  /\ failure' = <<>>
  /\ output' = Pending
  /\ handlerCalls' = <<>>
  /\ previous' = IF isElement(output)
                 THEN [children |-> Children(props), tokens |-> result]
                 ELSE NoRender
  /\ hookCalls' = IF Has(config, "hooks") THEN 1 ELSE 0
  /\ UNCHANGED <<config, fresh, childrenArg, returned>>

\* parse has returned the tokens: they are formatted and the render
\* returns formattedText.
FormattedText ==
  /\ status = "done"
  /\ output = Pending
  /\ \E formatted \in {format(textHandlerOf(config), transformTagHandlers(config),
                              defaultTagHandlerOf(config), keepUnknownTagsOf(config),
                              Array(result), 0, hooks)} :
        /\ output' = formatted.elem
        /\ handlerCalls' = formatted.calls
  /\ last' = Step("FormattedText")
  /\ UNCHANGED <<text, offset, tags, calls, status, result, failure,
                 config, props, hooks, previous, hookCalls, fresh,
                 childrenArg, returned>>

(***************************************************************************)
(* The inputs                                                              *)
(***************************************************************************)
\* Every text made of at most n pieces of P.
RECURSIVE Texts(_, _)
Texts(P, n) ==
  IF n = 0 THEN {""}
  ELSE LET shorter == Texts(P, n - 1)
       IN shorter \cup {s \o p : s \in shorter, p \in P}

\* Nesting: opening, closing and self-closing tags around text.
NestingPieces == {"<a>", "<b>", "</A>", "</b>", "<c/>", "</C>", "x"}
NestingTexts == Texts(NestingPieces, MaxPieces)

\* Attribute lists: an opening tag, at top level or inside an open tag
\* after some text, followed by pieces of an attribute list.
AttributePieces == {" ", "k", "=", "\"", ">", "/>"}
AttributeTexts ==
  {prefix \o "<b" \o s : prefix \in {"", "x<a>"},
                         s \in Texts(AttributePieces, MaxAttrPieces)}

\* Attribute values: a tag with at most MaxAttributes attributes, each a
\* flag, an unquoted value or a quoted value, ended by `>` or `/>`.
ValueForms ==
  { " f", " g ", " k=v", " k = w", " u=v/w",
    " q=\"a b\"", " q='a\"b'", " r=\"a'b\"", " r=\"a\\\"b\"", " s='<a>/'" }
ValueTexts ==
  {"<t" \o s \o end \o "x" : s \in Texts(ValueForms, MaxAttributes),
                             end \in {">", "/>"}}

\* The inputs of src/tests/tokenizer.spec.ts.
TestTexts ==
  { "",
    "Non-formatted string",
    "String with <foobar>some tag</foobar> without <b>Nesting</b>",
    "String with <foobar attr1=\"123\" attr2=\"xyz\">some tag</foobar>.",
    "String with <foobar attr1=123 attr2=foo bar>some tag</foobar>.",
    "String with <foobar attr1=123 bar attr2=foo>some tag</foobar>.",
    "before <tag attr=\"value\">child</tag> after",
    "before <tag attr=value>child</tag> after",
    "before <tag flag>child</tag> after",
    "before <tag attr=\"value\"/> after",
    "before <tag attr=value/> after",
    "before <tag flag/> after",
    "String with <foobar attr1 attr2>some tag</foobar>.",
    "<tagName>content</tagName>",
    "<TAGNAME>content</TAGNAME>",
    "<tagname>content</TAGNAME>",
    "<TAGNAME>content</TagName>",
    "a <br /> z",
    "a <FOO data-attr=\"bar\" /> z",
    "<a attr1=\"123\">some <b attr2=\"xyz\"><i>nested</i>tag</b></a>.",
    "<tagName attr=\"xyz\">content</tagName foo=\"123\" bar=\"456\">",
    "< tagName>content</tagName>",
    "< tagName>content</ tagName>",
    "<tagName>content <a>link</a></b></tagName>",
    "<tagName>content <a>link",
    "<tagName>content <a>link</tagName>",
    "<tagName >content</ tagName >",
    "<tagName attr = \"val\">content</tagName>",
    "<tagName attr=\"basic\">content</tagName>",
    "<tagName attr=\"with space\">content</tagName>",
    "<tagName attr=\" with   multiple   spaces \">content</tagName>",
    "<tagName attr='value' with-quote='has\"quote'>content</tagName>",
    "<tagName attr-name=\"value\">content</tagName>",
    "<tagName \"attr\"=\"value\">content</tagName>",
    "<tagName 'attr'=\"value\">content</tagName>",
    "<tagName attr=\"ab\\\"cd\">content</tagName>",
    "String with <foobar attr1=\"123></foobar>.",
    "String with <foobar attr1=\"123\" attr2=\"xyz\" some tag</foobar>." }

\* Every text of at most MaxChars characters over a small alphabet.
Characters == {"x", " ", "<", "/", ">", "="}
CharacterTexts == Texts(Characters, MaxChars)

Inputs ==
  NestingTexts \cup AttributeTexts \cup CharacterTexts \cup TestTexts
    \cup ValueTexts

\* The short inputs, and one input for each branch of the two loops.
LiveTexts ==
  Texts(NestingPieces \cup Characters, MaxLivePieces)
    \cup {"<b" \o s : s \in Texts(AttributePieces, MaxLivePieces)}
    \cup {"x</ x>x", "<b k=\"k", "<a><b k=\"x\">x</b>"}

\* The texts the component is rendered with.
FormatPieces == {"x", "<a>", "</A>", "<B k=\"v\" 1>", "</b>", "<c/>"}
FormatTexts ==
  Texts(FormatPieces, MaxFormatPieces)
  \cup { "x</ a>y", "x< a", "x<a k=\"v", "<a><b>x</a>y",
         "<a><B k=\"v\" 1>x</b>y</a>z", "<a>x<b>y</b><c 2 k='v' 1/></a>",
         "Price: <price qty=12345 usd />",
         "<b>bold</b> <foo>Unknown tag</foo>",
         "<fOo k=v>x</FOO>y" }
AllProps == {[children |-> s] : s \in FormatTexts} \cup {EmptyObject}

\* The configs the component is created with.
TagHandlerChoices ==
  { EmptyObject,
    [tagHandlers |-> <<>>],
    [tagHandlers |-> <<[name |-> "b", value |-> "tagHandlers.b"]>>],
    [tagHandlers |-> <<[name |-> "A", value |-> "tagHandlers.A"],
                       [name |-> "c", value |-> "tagHandlers.c"],
                       [name |-> "Foo", value |-> "tagHandlers.Foo"]>>],
    [tagHandlers |-> <<[name |-> "b", value |-> "tagHandlers.b"],
                       [name |-> "B", value |-> "tagHandlers.B"]>>] }
Configs ==
  { tagHandlers @@ defaultTagHandler @@ keepUnknownTags @@ textHandler @@ hooksOf :
      tagHandlers \in TagHandlerChoices,
      defaultTagHandler \in {EmptyObject, [defaultTagHandler |-> "defaultTagHandler"]},
      keepUnknownTags \in {EmptyObject, [keepUnknownTags |-> TRUE],
                           [keepUnknownTags |-> FALSE]},
      textHandler \in {EmptyObject, [textHandler |-> "textHandler"]},
      hooksOf \in {EmptyObject, [hooks |-> "hooks"]} }

\* Before the first render.
NotRendered ==
  /\ props = EmptyObject
  /\ hooks = NoHooks
  /\ output = NoOutput
  /\ handlerCalls = <<>>
  /\ previous = NoRender
  /\ hookCalls = 0
  /\ fresh = NoParse
  /\ childrenArg = <<>>
  /\ returned = NotCalled

(***************************************************************************)
(* The specification                                                       *)
(***************************************************************************)
Init ==
  /\ text \in Inputs
  /\ offset = 0
  /\ tags = <<>>
  /\ calls = <<>>
  /\ status = "idle"
  /\ result = <<>>
  /\ last = [op |-> "new", turn |-> 0]
  /\ failure = <<>>
  /\ config = EmptyObject
  /\ NotRendered

\* A step of the loops of parseContent and parseAttributes.
Scan ==
  \/ ClosingTagInvalid
  \/ ClosingTagUnopened
  \/ ClosingTagMatched
  \/ OpeningTagInvalid
  \/ OpeningTag
  \/ RegularCharacter
  \/ EndOfText
  \/ TagEnd
  \/ SelfClosingTagEnd
  \/ Attribute
  \/ MalformedAttribute

\* The Tokenizer called on its own, as src/tests/tokenizer.spec.ts does.
Next == parse \/ Scan

Spec == Init /\ [][Next]_vars

\* The component: created with a config, then rendered.
FormatInit ==
  /\ text = ""
  /\ offset = 0
  /\ tags = <<>>
  /\ calls = <<>>
  /\ status = "idle"
  /\ result = <<>>
  /\ last = [op |-> "createTextFormat", turn |-> 0]
  /\ failure = <<>>
  /\ config \in Configs
  /\ NotRendered

\* A first render has any props; a later one has the same children, and
\* is a new pass when the hooks return another value.
RenderProps == IF output = NoOutput THEN AllProps ELSE {props}

FormatNext ==
  \/ \E newProps \in RenderProps : TextFormat(newProps)
  \/ Scan
  \/ FormattedText

FormatSpec == FormatInit /\ [][FormatNext]_vars

\* The JavaScript engine runs a call to its end: a step that can be taken
\* is taken.
LiveInit ==
  /\ text \in LiveTexts
  /\ offset = 0
  /\ tags = <<>>
  /\ calls = <<>>
  /\ status = "idle"
  /\ result = <<>>
  /\ last = [op |-> "new", turn |-> 0]
  /\ failure = <<>>
  /\ config = EmptyObject
  /\ NotRendered

FairSpec == LiveInit /\ [][Next]_vars /\ WF_vars(Next)

(***************************************************************************)
(* The claims                                                              *)
(***************************************************************************)
Done == status = "done"

\* The first place at or after o where the text has the character c, and
\* Len(text) when it has none.
FirstAt(c, o) ==
  IF \E j \in o..(Len(text) - 1) : CharAt(text, j) = c
  THEN CHOOSE j \in o..(Len(text) - 1) :
         /\ CharAt(text, j) = c
         /\ \A k \in o..(j - 1) : CharAt(text, k) # c
  ELSE Len(text)

\* The tag name as written at o: the longest run of tag name characters.
IsNameChar(c) == c \in TAG_NAME_ALLOWED_CHARS.chars
NameAt(t, o) ==
  LET stop == {j \in o..Len(t) : j = Len(t) \/ ~IsNameChar(CharAt(t, j))}
      end == CHOOSE j \in stop : \A k \in stop : j <= k
  IN SubSeq(t, o + 1, end)
WrittenName(o) == NameAt(text, o)

\* A name with no lower-case letter, and two names equal up to letter case.
Canonical(name) ==
  \A i \in 1..Len(name) : SubSeq(name, i, i) \notin CharsOf(LowerCaseLetters)
SameLetter(c, d) ==
  \/ c = d
  \/ \E j \in 1..Len(LowerCaseLetters) :
       /\ c \in {SubSeq(LowerCaseLetters, j, j), SubSeq(UpperCaseLetters, j, j)}
       /\ d \in {SubSeq(LowerCaseLetters, j, j), SubSeq(UpperCaseLetters, j, j)}
SameName(a, b) ==
  /\ Len(a) = Len(b)
  /\ \A i \in 1..Len(a) : SameLetter(SubSeq(a, i, i), SubSeq(b, i, i))

\* The names of all tag tokens of a token forest.
RECURSIVE TagNames(_)
TagNames(forest) ==
  UNION {IF isTextToken(forest[i]) THEN {}
         ELSE {forest[i].tag} \cup TagNames(forest[i].children) : i \in DOMAIN forest}

\* What parse returns, or would return if the text ended here: the forest
\* held by the activations, the text not yet flushed being the last token
\* of the innermost parseContent.
TrailingText(frame) ==
  IF frame.fn = "parseContent" /\ frame.startOffset < Len(text)
  THEN <<[text |-> SubSeq(text, frame.startOffset + 1, Len(text))]>>
  ELSE <<>>
Outcome ==
  IF Done THEN result
  ELSE IF Len(calls) = 0 THEN <<>>
  ELSE Folded([calls EXCEPT ![Len(calls)] =
                 IF @.fn = "parseContent"
                 THEN [@ EXCEPT !.content = @ \o TrailingText(Top)]
                 ELSE @])

\* The frames below the top one are left as they are.
CallersUnchanged ==
  /\ Len(calls') = Len(calls)
  /\ \A i \in 1..(Len(calls) - 1) : calls'[i] = calls[i]

\* C1: parse terminates and returns a token list for every finite input,
\* also when the input ends inside an opening tag's attribute list (right
\* after a tag name, after an attribute, or right after a `<`).
C1_ParseTerminates == <>Done

\* C2: a closing tag that matches an open tag which is not the innermost
\* one closes the matched tag and every tag opened after it: once it is
\* read, no activation of parseTag is left for a popped entry of the
\* stack, so what follows goes to the matched tag's parent.
C2_ClosingTagClosesMatchedTag ==
  [][(last'.op = "ClosingTagMatched" /\ Len(tags') < Len(tags) - 1)
       => \A i \in DOMAIN calls' :
            calls'[i].fn = "parseTag" => calls'[i].pos <= Len(tags')]_vars

\* C3, as stated: for every string with no `<`, parse returns the
\* one-element list holding that string.
C3_PlainTextIsOneToken_Original ==
  (Done /\ ~Includes(text, TAG_START)) => result = <<[text |-> text]>>

\* C3, amended: for every non-empty string with no `<`, parse returns the
\* one-element list holding that string, unchanged; for the empty string
\* it returns the empty list.
C3_PlainTextIsOneToken ==
  (Done /\ ~Includes(text, TAG_START))
    => result = IF text = "" THEN <<>> ELSE <<[text |-> text]>>

C3_Witness ==
  /\ Done /\ ~Includes(text, TAG_START)
  /\ Includes(text, TAG_END) /\ Includes(text, "x")
  /\ result = <<[text |-> text]>>

\* C4: when a quoted attribute value is not closed before the end of the
\* input, parse returns exactly the forest scanned before that tag's `<`:
\* no token for the tag, nothing of the input from its `<` on, the
\* enclosing open tags with their tokens.
C4_UnterminatedQuoteDropsTag ==
  (Done /\ failure # <<>>) => (Len(failure) = 1 /\ result = failure[1].before)

C4_Witness ==
  /\ Done /\ failure # <<>>
  /\ \E i \in DOMAIN result : isTextToken(result[i])
  /\ \E i \in DOMAIN result : ~isTextToken(result[i])

\* C5: a well-formed closing tag whose name is not on the stack is inert:
\* the stack and the callers are unchanged, the enclosing content goes on,
\* the text before it is flushed as a token of its own, and the next text
\* starts right after the closing tag's `>`.
C5_UnopenedClosingTagIsInert ==
  [][(last'.op = "ClosingTagUnopened" /\ FirstAt(TAG_END, offset) < Len(text))
       => /\ tags' = tags
          /\ status' = "parsing"
          /\ CallersUnchanged
          /\ calls'[Len(calls)].fn = "parseContent"
          /\ calls'[Len(calls)].content =
               IF offset > Top.startOffset
               THEN Append(Top.content,
                           [text |-> SubSeq(text, Top.startOffset + 1, offset)])
               ELSE Top.content
          /\ calls'[Len(calls)].startOffset = FirstAt(TAG_END, offset) + 1
          /\ offset' = FirstAt(TAG_END, offset) + 1]_vars

C5_Witness ==
  /\ last.op = "ClosingTagUnopened"
  /\ Len(calls) > 1
  /\ Top.content # <<>> /\ isTextToken(Top.content[Len(Top.content)])
  /\ offset < Len(text)

\* C6: when the input ends while tags are open, every open tag produces
\* its token, nested in opening order, with all that was scanned as its
\* children, and the text not yet flushed is the last token of the
\* innermost one: from the end of the input on, the returns neither add
\* to nor take from that forest.
C6_OpenTagsAreClosedAtTheEnd ==
  [][(InContent /\ offset >= Len(text)) => Outcome' = Outcome]_vars

C6_Witness ==
  /\ Done /\ last.op = "EndOfText" /\ failure = <<>>
  /\ Len(result) = 1 /\ ~isTextToken(result[1])
  /\ \E i \in DOMAIN result[1].children :
       /\ ~isTextToken(result[1].children[i])
       /\ result[1].children[i].children # <<>>
       /\ isTextToken(result[1].children[i].children[1])

\* C7: tag names are compared without regard to letter case: every name
\* on the stack, in an activation or in a token has no lower-case letter
\* and is the name as written up to case, and a closing tag closes the
\* last open tag whose name equals its own up to case.
NamesAreCanonical ==
  /\ \A i \in DOMAIN tags : Canonical(tags[i])
  /\ \A name \in TagNames(Outcome) : Canonical(name)
C7_TagNamesIgnoreCase ==
  [][/\ NamesAreCanonical'
     /\ last'.op = "OpeningTag" => SameName(calls'[Len(calls')].tag, WrittenName(offset + 1))
     /\ (/\ AtClosingTag
         /\ IsNameChar(CharAt(text, offset + 2))
         /\ \E i \in DOMAIN tags : SameName(tags[i], WrittenName(offset + 2)))
        => /\ last'.op = "ClosingTagMatched"
           /\ \E i \in DOMAIN tags :
                /\ SameName(tags[i], WrittenName(offset + 2))
                /\ \A j \in (i + 1)..Len(tags) : ~SameName(tags[j], WrittenName(offset + 2))
                /\ tags' = SubSeq(tags, 1, i - 1)]_vars

C7_Witness ==
  /\ last.op = "ClosingTagMatched"
  /\ Includes(text, "<a>") /\ Includes(text, "</A>")
  /\ ~Includes(text, "</a>") /\ ~Includes(text, "<A>")
  /\ tags = <<>> /\ InContent
  /\ Top.content = <<[tag |-> "A", attrs |-> <<>>, children |-> <<[text |-> "x"]>>]>>

\* C8: a tag whose opening markup ends with `/>` yields a tag token with
\* no children, with or without attributes, and no content is parsed into
\* it: the token goes to the enclosing content, which scans on right after
\* the `/>`.
C8_SelfClosingTagHasNoChildren ==
  [][last'.op = "SelfClosingTagEnd"
       => /\ InAttributes
          /\ status' = "parsing"
          /\ Len(calls') = Len(calls) - 1
          /\ \A i \in 1..(Len(calls) - 2) : calls'[i] = calls[i]
          /\ calls'[Len(calls')].fn = "parseContent"
          /\ calls'[Len(calls')].content =
               Append(calls[Len(calls) - 1].content,
                      [tag |-> Top.tag, attrs |-> Top.attrs, children |-> <<>>])
          /\ calls'[Len(calls')].startOffset = offset'
          /\ SubSeq(text, offset' - 1, offset') = SELF_CLOSING_TAG_END]_vars

C8_Witness ==
  /\ last.op = "SelfClosingTagEnd"
  /\ Len(calls) > 1
  /\ Top.content[Len(Top.content)].attrs # <<>>
  /\ Top.content[Len(Top.content)].children = <<>>
  /\ offset < Len(text)

\* C9: parse never throws: the 'Malformed attribute' error is caught in
\* parseTag, which returns no token to the parseContent that called it,
\* and nothing escapes to the caller of parse.
C9_ParseNeverThrows ==
  /\ status # "thrown"
  /\ last.op = "MalformedAttribute" => (InContent /\ failure # <<>>)

C9_Witness ==
  /\ last.op = "MalformedAttribute" /\ InContent /\ Len(calls) > 1

\* The handlers the config registers under a name, whatever its letter case.
RegisteredFor(name) ==
  IF Has(config, "tagHandlers")
  THEN {config.tagHandlers[i].value :
          i \in {j \in DOMAIN config.tagHandlers :
                   SameName(config.tagHandlers[j].name, name)}}
  ELSE {}

\* How many tag tokens of a forest have the name.
RECURSIVE CountTags(_, _)
CountTags(forest, name) ==
  IF forest = <<>> THEN 0
  ELSE LET token == Head(forest)
       IN (IF isTextToken(token) THEN 0
           ELSE (IF token.tag = name THEN 1 ELSE 0) + CountTags(token.children, name))
          + CountTags(Tail(forest), name)

\* The calls of tag handlers made for tags of the name.
TagCallsFor(name) ==
  {i \in DOMAIN handlerCalls :
     Has(handlerCalls[i].data, "name") /\ handlerCalls[i].data.name = name}

\* The tag name of literal markup, `<NAME ...` or `</NAME>`.
MarkupName(content) ==
  NameAt(content, IF StartsWithAt(content, CLOSING_TAG_START, 0) THEN 2 ELSE 1)

\* The names of the tags a rendered node holds literal markup for, and the
\* [handler, name] of the tags it holds a handler's element for.
RECURSIVE MarkupNames(_)
MarkupNames(node) ==
  IF Has(node, "array")
  THEN UNION {MarkupNames(node.array[i]) : i \in DOMAIN node.array}
  ELSE IF Has(node, "text") THEN {}
  ELSE IF Has(node, "handler")
  THEN IF Has(node.data, "name")
       THEN UNION {MarkupNames(node.data.children[i]) : i \in DOMAIN node.data.children}
       ELSE {}
  ELSE IF node.type = "pre" THEN {MarkupName(node.children.text)}
  ELSE MarkupNames(node.children)
RECURSIVE HandledTags(_)
HandledTags(node) ==
  IF Has(node, "array")
  THEN UNION {HandledTags(node.array[i]) : i \in DOMAIN node.array}
  ELSE IF Has(node, "text") THEN {}
  ELSE IF Has(node, "handler")
  THEN IF Has(node.data, "name")
       THEN {<<node.handler, node.data.name>>}
            \cup UNION {HandledTags(node.data.children[i]) : i \in DOMAIN node.data.children}
       ELSE {}
  ELSE IF node.type = "pre" THEN {}
  ELSE HandledTags(node.children)

\* C10: a tag whose name has an entry in tagHandlers is rendered by a
\* handler registered for it and by nothing else: each such tag token
\* causes one call, of a registered handler, the default tag handler is
\* not called for it and no literal markup is made for it, whatever
\* defaultTagHandler and keepUnknownTags are.
C10_RegisteredHandlerWins ==
  isElement(output)
    => \A name \in TagNames(result) :
         RegisteredFor(name) # {}
           => /\ \A i \in TagCallsFor(name) :
                   handlerCalls[i].handler \in RegisteredFor(name)
              /\ Cardinality(TagCallsFor(name)) = CountTags(result, name)
              /\ name \notin MarkupNames(output)
              /\ \A handled \in HandledTags(output) :
                   handled[2] = name => handled[1] \in RegisteredFor(name)
              /\ \E handled \in HandledTags(output) : handled[2] = name

C10_Witness ==
  /\ isElement(output)
  /\ Has(config, "defaultTagHandler") /\ keepUnknownTagsOf(config)
  /\ \E i \in DOMAIN handlerCalls : handlerCalls[i].handler = "tagHandlers.b"
  /\ \E i \in DOMAIN handlerCalls : handlerCalls[i].handler = "defaultTagHandler"
  /\ \E name \in TagNames(result) : RegisteredFor(name) = {}

\* The format pass of the last render, with keepUnknownTags as given.
FormattedWith(keepUnknownTags) ==
  format(textHandlerOf(config), transformTagHandlers(config),
         defaultTagHandlerOf(config), keepUnknownTags, Array(result), 0, hooks)

\* C11: with a defaultTagHandler configured keepUnknownTags has no effect:
\* the render returns the same element for keepUnknownTags true and false,
\* it holds no literal markup, and every tag with no registered handler
\* causes one call of the default tag handler, whose element is in the
\* output.
C11_DefaultHandlerOverridesKeepUnknown ==
  (isElement(output) /\ Has(config, "defaultTagHandler"))
    => /\ FormattedWith(TRUE).elem = output
       /\ FormattedWith(FALSE).elem = output
       /\ FormattedWith(TRUE).calls = handlerCalls
       /\ FormattedWith(FALSE).calls = handlerCalls
       /\ MarkupNames(output) = {}
       /\ \A name \in TagNames(result) :
            RegisteredFor(name) = {}
              => /\ \A i \in TagCallsFor(name) :
                      handlerCalls[i].handler = config.defaultTagHandler
                 /\ Cardinality(TagCallsFor(name)) = CountTags(result, name)
                 /\ <<config.defaultTagHandler, name>> \in HandledTags(output)
                 /\ \A handled \in HandledTags(output) :
                      handled[2] = name => handled[1] = config.defaultTagHandler

C11_Witness ==
  /\ isElement(output)
  /\ Has(config, "defaultTagHandler") /\ keepUnknownTagsOf(config)
  /\ ~Has(config, "tagHandlers")
  /\ \E i \in DOMAIN result :
       /\ ~isTextToken(result[i])
       /\ result[i].attrs # <<>>
       /\ result[i].children # <<>>
  /\ \E i \in DOMAIN handlerCalls : handlerCalls[i].handler = "defaultTagHandler"

\* What a rendered node shows, in order: React renders a Fragment and an
\* array as their children and nothing of their own, so they are left
\* out, and so are the keys and the indices.  A string shows as itself, a
\* `pre` as its content, a handler's element as the handler with what it
\* was given.
RECURSIVE Visible(_)
Visible(node) ==
  LET all(nodes) ==
        LET upTo[i \in 0..Len(nodes)] ==
              IF i = 0 THEN <<>> ELSE upTo[i - 1] \o Visible(nodes[i])
        IN upTo[Len(nodes)]
  IN IF Has(node, "array") THEN all(node.array)
     ELSE IF Has(node, "text")
     THEN IF node.text = "" THEN <<>> ELSE <<[text |-> node.text]>>
     ELSE IF Has(node, "handler")
     THEN IF Has(node.data, "name")
          THEN <<[handler |-> node.handler,
                  name |-> node.data.name,
                  attrs |-> node.data.attrs,
                  children |-> all(node.data.children)]>>
          ELSE <<[handler |-> node.handler, text |-> node.data.text]>>
     ELSE IF node.type = "pre" THEN <<[pre |-> node.children.text]>>
     ELSE Visible(node.children)

\* A forest with every tag that has no registered handler replaced by its
\* children.
RECURSIVE Elided(_)
Elided(forest) ==
  IF forest = <<>> THEN <<>>
  ELSE LET token == Head(forest)
       IN (IF isTextToken(token) THEN <<token>>
           ELSE IF RegisteredFor(token.tag) = {} THEN Elided(token.children)
           ELSE <<[token EXCEPT !.children = Elided(token.children)]>>)
          \o Elided(Tail(forest))

\* The format pass of the component on a forest.
FormatOf(forest) ==
  format(textHandlerOf(config), transformTagHandlers(config),
         defaultTagHandlerOf(config), keepUnknownTagsOf(config),
         Array(forest), 0, hooks)

\* C12: with no defaultTagHandler and keepUnknownTags false a tag with no
\* registered handler shows nothing of its own and its children show in
\* its place, in order: the output shows what it would show had every
\* such tag been replaced by its children, with the same handler calls in
\* the same order, no handler is called for such a tag and no markup is
\* made for it.
C12_UnknownTagIsElided ==
  (isElement(output) /\ ~Has(config, "defaultTagHandler") /\ ~keepUnknownTagsOf(config))
    => /\ Visible(output) = Visible(FormatOf(Elided(result)).elem)
       /\ MarkupNames(output) = {}
       /\ \A name \in TagNames(result) :
            RegisteredFor(name) = {}
              => /\ TagCallsFor(name) = {}
                 /\ \A handled \in HandledTags(output) : handled[2] # name
       /\ [i \in DOMAIN handlerCalls |-> handlerCalls[i].handler]
            = [i \in DOMAIN FormatOf(Elided(result)).calls |->
                 FormatOf(Elided(result)).calls[i].handler]

C12_Witness ==
  /\ isElement(output)
  /\ ~Has(config, "defaultTagHandler") /\ ~keepUnknownTagsOf(config)
  /\ \E i \in DOMAIN result :
       /\ ~isTextToken(result[i])
       /\ RegisteredFor(result[i].tag) = {}
       /\ Len(result[i].children) > 1
       /\ \E j \in DOMAIN result[i].children :
            /\ ~isTextToken(result[i].children[j])
            /\ RegisteredFor(result[i].children[j].tag) # {}
  /\ Len(Visible(output)) > 1

\* The literal markup of a tag token: ` key="value"` for each attribute,
\* in the order the attrs object lists its keys, after `<NAME`, and the
\* end that goes with its having children or not.
AttributeMarkup(attrs) ==
  LET entries == ObjectEntries(attrs)
      upTo[i \in 0..Len(entries)] ==
        IF i = 0 THEN ""
        ELSE upTo[i - 1] \o " " \o entries[i].name \o "=\"" \o entries[i].value \o "\""
  IN upTo[Len(entries)]
OpenMarkup(token) ==
  "<" \o token.tag \o AttributeMarkup(token.attrs)
  \o (IF token.children # <<>> THEN ">"
      ELSE IF token.attrs = <<>> THEN "/>" ELSE " />")

\* What a forest shows when the tags no handler renders are kept as
\* literal text.
RECURSIVE Literal(_)
Literal(forest) ==
  IF forest = <<>> THEN <<>>
  ELSE LET token == Head(forest)
       IN (IF isTextToken(token) THEN Visible(FormatOf(<<token>>).elem)
           ELSE IF RegisteredFor(token.tag) # {}
           THEN <<[handler |-> Get(transformTagHandlers(config), token.tag),
                   name |-> token.tag,
                   attrs |-> token.attrs,
                   children |-> Literal(token.children)]>>
           ELSE IF token.children # <<>>
           THEN <<[pre |-> OpenMarkup(token)]>>
                \o Literal(token.children)
                \o <<[pre |-> "</" \o token.tag \o ">"]>>
           ELSE <<[pre |-> OpenMarkup(token)]>>)
          \o Literal(Tail(forest))

\* C13: with keepUnknownTags true and no defaultTagHandler a tag with no
\* registered handler shows as literal text: `<NAME`, ` key="value"` for
\* each attribute and `>`, its children, and `</NAME>` when it has
\* children; `<NAME/>` or `<NAME key="value" />` and no closing markup when
\* it has none.  NAME is the upper-case name, also for a tag that the end
\* of the text closed.
C13_UnknownTagIsLiteral ==
  (isElement(output) /\ ~Has(config, "defaultTagHandler") /\ keepUnknownTagsOf(config))
    => /\ Visible(output) = Literal(result)
       /\ \A name \in MarkupNames(output) : Canonical(name) /\ RegisteredFor(name) = {}
       /\ \A name \in TagNames(result) :
            RegisteredFor(name) = {} => name \in MarkupNames(output)

C13_Witness ==
  /\ isElement(output)
  /\ ~Has(config, "defaultTagHandler") /\ keepUnknownTagsOf(config)
  /\ ~Includes(text, CLOSING_TAG_START)
  /\ \E i \in DOMAIN result :
       /\ ~isTextToken(result[i])
       /\ RegisteredFor(result[i].tag) = {}
       /\ Len(result[i].attrs) > 1
       /\ \E j \in DOMAIN result[i].children :
            /\ ~isTextToken(result[i].children[j])
            /\ RegisteredFor(result[i].children[j].tag) = {}
            /\ result[i].children[j].children = <<>>

(***************************************************************************)
(* The round trip: the component shows unknown tags as literal markup, and *)
(* is rendered again with the text it showed.                              *)
(***************************************************************************)
\* The text the page shows for a rendered node: its strings and the
\* contents of its `pre` elements, in order.
ShownText(node) ==
  LET items == Visible(node)
      upTo[i \in 0..Len(items)] ==
        IF i = 0 THEN ""
        ELSE upTo[i - 1] \o (IF Has(items[i], "pre") THEN items[i].pre
                             ELSE IF Has(items[i], "text") THEN items[i].text
                             ELSE "")
  IN upTo[Len(items)]

\* Well-formed texts: every tag that is opened is closed, every `<` begins
\* a tag, and the attribute values are written in each quote style.
AttributeForms ==
  { "", " k", " k=v", " k=\"v\"", " k='v'", " k='a b'", " k=\"a'b\"",
    " k='a\"b'", " k=\"v\" 1", " 2='w' k=v j" }
WellFormedTexts ==
  {before \o "<a" \o attributes \o ">" \o inner \o "</a>" :
     before \in {"", "x"},
     attributes \in AttributeForms,
     inner \in {"", "y", "<c k='v'/>y", "<b 1 k=v>y</b>"}}
  \cup {"<c" \o attributes \o "/>" \o after :
          attributes \in AttributeForms, after \in {"", "y"}}

KeepUnknownTags == EmptyObject @@ [keepUnknownTags |-> TRUE]

RoundTripInit ==
  /\ text = ""
  /\ offset = 0
  /\ tags = <<>>
  /\ calls = <<>>
  /\ status = "idle"
  /\ result = <<>>
  /\ last = [op |-> "createTextFormat", turn |-> 0]
  /\ failure = <<>>
  /\ config = KeepUnknownTags
  /\ NotRendered

\* A first render has any text; a later one has the text the render
\* before it showed.
RoundTripProps ==
  IF output = NoOutput
  THEN AllProps \cup {[children |-> s] : s \in WellFormedTexts}
  ELSE IF isElement(output) THEN {[children |-> ShownText(output)]}
  ELSE {}

RoundTripNext ==
  \/ \E newProps \in RoundTripProps : TextFormat(newProps)
  \/ Scan
  \/ FormattedText

RoundTripSpec == RoundTripInit /\ [][RoundTripNext]_vars

\* A forest as JavaScript compares it: the attrs of a tag are an object,
\* whose keys have the order Object.entries gives them.
RECURSIVE AsObjects(_)
AsObjects(forest) ==
  [i \in DOMAIN forest |->
     IF isTextToken(forest[i]) THEN forest[i]
     ELSE [tag |-> forest[i].tag,
           attrs |-> ObjectEntries(forest[i].attrs),
           children |-> AsObjects(forest[i].children)]]

\* The render before was of a well-formed text, and this one is of the
\* text that one showed.
RoundTripDone ==
  /\ isElement(output)
  /\ previous # NoRender
  /\ previous.children # <<>>
  /\ previous.children[1] \in WellFormedTexts
  /\ Children(props) = <<ShownText(FormatOf(previous.tokens).elem)>>

\* C14: for a well-formed text, the literal markup that the
\* keepUnknownTags fallback makes from its tokens parses to the same
\* token forest: the same names and nesting, the same attribute names,
\* values and order, whatever the quotes of the text.
C14_MarkupRoundTrip ==
  RoundTripDone => AsObjects(result) = AsObjects(previous.tokens)

\* The handler of the last key of config.tagHandlers that is the name in
\* some letter case.
LastRegisteredFor(name) ==
  LET entries == ObjectEntries(config.tagHandlers)
      same == {i \in DOMAIN entries : SameName(entries[i].name, name)}
  IN entries[CHOOSE i \in same : \A j \in same : j <= i].value

\* C15: handler lookup ignores letter case: a tag whose name is, in some
\* letter case, a key of config.tagHandlers is rendered by the handler
\* registered under that key, in whatever case the key and the tag are
\* written (by the last such key when several differ in case only).
C15_HandlerLookupIgnoresCase ==
  isElement(output)
    => \A name \in TagNames(result) :
         RegisteredFor(name) # {}
           => /\ TagCallsFor(name) # {}
              /\ \A i \in TagCallsFor(name) :
                   handlerCalls[i].handler = LastRegisteredFor(name)
              /\ <<LastRegisteredFor(name), name>> \in HandledTags(output)

\* A tag written `<fOo>` is rendered by the handler registered as `Foo`,
\* and one written `<b>` by the handler registered as `B`.
C15_Witness ==
  /\ isElement(output)
  /\ \/ /\ Includes(text, "<fOo")
        /\ \E i \in TagCallsFor("FOO") : handlerCalls[i].handler = "tagHandlers.Foo"
     \/ /\ Includes(text, "<b>")
        /\ \E i \in TagCallsFor("B") : handlerCalls[i].handler = "tagHandlers.B"


\* How many tokens of a forest a handler is called for: the text tokens,
\* and the tag tokens when their name is registered or there is a default
\* tag handler.
RECURSIVE CountHandled(_)
CountHandled(forest) ==
  IF forest = <<>> THEN 0
  ELSE LET token == Head(forest)
       IN (IF isTextToken(token) THEN 1
           ELSE (IF RegisteredFor(token.tag) # {} \/ Has(config, "defaultTagHandler")
                 THEN 1 ELSE 0)
                + CountHandled(token.children))
          + CountHandled(Tail(forest))

C17_NoChildrenIsEmptyString ==
  (isElement(output) /\ (~Has(props, "children") \/ props.children = ""))
    => /\ text = ""
       /\ result = <<>>
       /\ handlerCalls = <<>>
       /\ output = createElement(Fragment, [key |-> 0], Array(<<>>))
       /\ ShownText(output) = ""

\* A render with no children has returned, in a component whose config
\* has a text handler and a default tag handler.
C17_Witness ==
  /\ isElement(output)
  /\ ~Has(props, "children")
  /\ Has(config, "textHandler")
  /\ Has(config, "defaultTagHandler")
  /\ last.op = "FormattedText"

\* A render with the empty string has returned.
C17_EmptyStringRendered ==
  /\ isElement(output)
  /\ Has(props, "children")
  /\ props.children = ""
  /\ last.op = "FormattedText"


(***************************************************************************)
(* Attributes, read from the text                                          *)
(***************************************************************************)
\* The first place at or after o whose character is in S (member TRUE) or
\* is not in S (member FALSE), and Len(text) when there is none.
FirstWhere(o, S, member) ==
  LET stop == {j \in o..Len(text) :
                 j >= Len(text) \/ ((CharAt(text, j) \in S) = member)}
  IN IF o >= Len(text) THEN o ELSE CHOOSE j \in stop : \A k \in stop : j <= k

\* The attribute written next in the tag being read: it starts after the
\* whitespace and the `=` at the cursor, its name runs up to the next
\* whitespace, `=`, `/` or `>`, and whitespace may follow the name.
WrittenStart == FirstWhere(offset, WhiteSpace \cup {"="}, FALSE)
WrittenNameEnd == FirstWhere(WrittenStart, WhiteSpace \cup {"=", "/", ">"}, TRUE)
WrittenAttrName == SubSeq(text, WrittenStart + 1, WrittenNameEnd)
AfterWrittenName == FirstWhere(WrittenNameEnd, WhiteSpace, FALSE)
AttributeWritten == InAttributes /\ WrittenNameEnd > WrittenStart
FlagWritten == AttributeWritten /\ CharAt(text, AfterWrittenName) # "="

\* The value stored under a name, and the names stored.
StoredNames(attrs) == {attrs[i].name : i \in DOMAIN attrs}
StoredValue(attrs, name) ==
  attrs[CHOOSE i \in DOMAIN attrs : attrs[i].name = name].value

\* The step stores the value under the name, in the tag being read, and
\* leaves the other attributes of the tag as they are.
Stores(name, value) ==
  /\ InAttributes'
  /\ CallersUnchanged
  /\ StoredNames(Top'.attrs) = StoredNames(Top.attrs) \cup {name}
  /\ StoredValue(Top'.attrs, name) = value
  /\ \A other \in StoredNames(Top.attrs) \ {name} :
       StoredValue(Top'.attrs, other) = StoredValue(Top.attrs, other)

\* The step ends the opening tag, at `>` or at `/>`, and the tag keeps
\* the attributes stored: a tag ended by `>` goes on to its content, one
\* ended by `/>` is returned with no children.
TagEndKeepsAttributes ==
  LET end == FirstWhere(offset, WhiteSpace \cup {"="}, FALSE)
  IN (InAttributes /\ end < Len(text) /\ CharAt(text, end) \in {">", "/"}
        /\ (CharAt(text, end) = "/" => CharAt(text, end + 1) = ">"))
       => IF CharAt(text, end) = ">"
          THEN /\ InContent'
               /\ Len(calls') = Len(calls) + 1
               /\ calls'[Len(calls)] = Top
               /\ offset' = end + 1
          ELSE /\ InContent'
               /\ Len(calls') = Len(calls) - 1
               /\ Top'.content # <<>>
               /\ Top'.content[Len(Top'.content)] = TagToken(Top.tag, Top.attrs, <<>>)
               /\ offset' = end + 2

C18_FlagBetweenValues ==
  /\ text = "<t k=v f r=\"a'b\">x"
  /\ last.op = "TagEnd"
  /\ calls[Len(calls) - 1].attrs = <<[name |-> "k", value |-> "v"],
                                     [name |-> "f", value |-> ""],
                                     [name |-> "r", value |-> "a'b"]>>

\* The value written after the `=` of the attribute written next: it
\* starts after the whitespace that follows the `=`.
ValueWritten == AttributeWritten /\ CharAt(text, AfterWrittenName) = "="
WrittenValueStart == FirstWhere(AfterWrittenName + 1, WhiteSpace, FALSE)
OpeningQuote == CharAt(text, WrittenValueStart)
ClosingQuoteAt == FirstAt(OpeningQuote, WrittenValueStart + 1)
QuotedValueWritten ==
  /\ ValueWritten
  /\ WrittenValueStart < Len(text)
  /\ OpeningQuote \in {"'", "\""}
  /\ ClosingQuoteAt < Len(text)

\* C19: a value opened by a single or a double quote is the text between
\* that quote and the next occurrence of the same character, as written:
\* whitespace, `<`, `>`, `/`, the other quote and a backslash are
\* characters like any other, so a quote after a backslash ends the value,
\* and reading goes on with the attributes after the closing quote.
C19_QuotedValueIsVerbatim ==
  [][QuotedValueWritten
       => /\ Stores(WrittenAttrName,
                    SubSeq(text, WrittenValueStart + 2, ClosingQuoteAt))
          /\ offset' = ClosingQuoteAt + 1]_vars

\* Values with a space, with `<`, `>` and `/`, and with a backslash before
\* the quote have been read; what follows the backslash and its quote was
\* read as one more attribute.
C19_Witness ==
  /\ Done
  /\ text = "<t q=\"a b\" s='<a>/' r=\"a\\\"b\">x"
  /\ result = <<TagToken("T", <<[name |-> "q", value |-> "a b"],
                                [name |-> "s", value |-> "<a>/"],
                                [name |-> "r", value |-> "a\\"],
                                [name |-> "b\"", value |-> ""]>>,
                         <<TextToken("x")>>)>>

\* A value in single quotes that holds a double quote, and one in double
\* quotes that holds a single quote, have been read.
C19_OtherQuoteKept ==
  /\ Done
  /\ text = "<t q='a\"b' r=\"a'b\"/>x"
  /\ result = <<TagToken("T", <<[name |-> "q", value |-> "a\"b"],
                                [name |-> "r", value |-> "a'b"]>>, <<>>),
                TextToken("x")>>


\* An unquoted value: what follows the `=` and its whitespace is not a
\* quote; the value runs up to the next whitespace, `/` or `>`, or to the
\* end of the text.
UnquotedValueWritten == ValueWritten /\ OpeningQuote \notin {"'", "\""}
UnquotedValueEnd ==
  FirstWhere(WrittenValueStart, WhiteSpace \cup {"/", ">"}, TRUE)

\* An attribute has just been read and the cursor is at the `>` or the
\* `/>` that stopped it.
AttributeReadUpTo(end) ==
  /\ InAttributes
  /\ last.op = "Attribute"
  /\ nextStringIs(text, offset, end)

\* C20: a value with no quote is the characters after the `=` and the
\* whitespace that follows it, up to and not including the next
\* whitespace, `/` or `>`; the character that stops it is not consumed, so
\* a `>` there ends the opening tag and a `/>` there self-closes the tag,
\* which keeps the attribute.
C20_UnquotedValueEndsAtSpaceOrTagEnd ==
  [][/\ UnquotedValueWritten
          => /\ Stores(WrittenAttrName,
                       SubSeq(text, WrittenValueStart + 1, UnquotedValueEnd))
             /\ offset' = UnquotedValueEnd
     /\ AttributeReadUpTo(">")
          => /\ last'.op = "TagEnd"
             /\ offset' = offset + 1
             /\ calls' = Append(calls, ContentFrame(offset + 1))
     /\ AttributeReadUpTo("/>")
          => /\ last'.op = "SelfClosingTagEnd"
             /\ offset' = offset + 2
             /\ InContent'
             /\ Top'.content # <<>>
             /\ Top'.content[Len(Top'.content)] = TagToken(Top.tag, Top.attrs, <<>>)
             /\ Top'.startOffset = offset + 2]_vars

\* Unquoted values stopped by `/`, by whitespace and by `/>` have been
\* read, and the `/>` has closed the tag.
C20_Witness ==
  /\ Done
  /\ text = "<t u=v/w k = w/>x"
  /\ result = <<TagToken("T", <<[name |-> "u", value |-> "v"],
                                [name |-> "w", value |-> ""],
                                [name |-> "k", value |-> "w"]>>, <<>>),
                TextToken("x")>>

\* An unquoted value stopped by `>` has been read, and the `>` has ended
\* the opening tag.
C20_ValueBeforeTagEnd ==
  /\ Done
  /\ text = "<t f k=v>x"
  /\ result = <<TagToken("T", <<[name |-> "f", value |-> ""],
                                [name |-> "k", value |-> "v"]>>,
                         <<TextToken("x")>>)>>


\* The value of the attribute written next opens with a quote that is
\* never closed: reading it throws.
UnterminatedQuoteWritten ==
  /\ ValueWritten
  /\ WrittenValueStart < Len(text)
  /\ OpeningQuote \in {"'", "\""}
  /\ ClosingQuoteAt >= Len(text)

\* The cursor, after whitespace and `=`, is at the `>` or the `/>` that
\* ends the opening tag, or at a `/` that does not.
AtTagEndWritten ==
  /\ InAttributes
  /\ \/ nextStringIs(text, WrittenStart, ">")
     \/ nextStringIs(text, WrittenStart, "/>")
LoneSlashWritten ==
  /\ InAttributes
  /\ nextStringIs(text, WrittenStart, "/")
  /\ ~nextStringIs(text, WrittenStart, "/>")

C21_QuoteStartsName ==
  /\ Done
  /\ text = "<tagName 'attr'=\"value\">content</tagName>"
  /\ result = <<TagToken("TAGNAME", <<[name |-> "'attr'", value |-> "value"]>>,
                         <<TextToken("content")>>)>>

\* The `>` inside a quoted value has not ended the opening tag.
C21_TagEndInsideQuotes ==
  /\ Done
  /\ text = "<t s='<a>/' f>x"
  /\ result = <<TagToken("T", <<[name |-> "s", value |-> "<a>/"],
                                [name |-> "f", value |-> ""]>>,
                         <<TextToken("x")>>)>>


(***************************************************************************)
(* `<` and `</` that begin no tag                                          *)
(***************************************************************************)
\* The cursor of a content scan is at a `<` with no `/` behind it, or at a
\* `</`, and a tag name character does not come next: another character
\* does, or the text ends there.
AtLessThan ==
  /\ InContent /\ offset < Len(text)
  /\ CharAt(text, offset) = "<"
AtBareOpening ==
  /\ AtLessThan
  /\ ~StartsWithAt(text, "</", offset)
  /\ (offset + 1 >= Len(text) \/ ~IsNameChar(CharAt(text, offset + 1)))
AtBareClosing ==
  /\ AtLessThan
  /\ StartsWithAt(text, "</", offset)
  /\ (offset + 2 >= Len(text) \/ ~IsNameChar(CharAt(text, offset + 2)))

\* The step leaves the `<` in the text being scanned: it moves the cursor
\* one character on and nothing else changes, so the character is part of
\* the text token flushed later.
StaysText ==
  /\ offset' = offset + 1
  /\ calls' = calls
  /\ tags' = tags
  /\ status' = status

\* C22: a `<` or a `</` with no tag name character right after it is not
\* a tag: the step leaves it in the surrounding text, leaves the stack of
\* open tags as it is and moves the cursor one character on.
C22_BareTagStartIsText ==
  [][(AtBareOpening \/ AtBareClosing) => StaysText]_vars

\* The part of C22 about `<` alone, the end of the text included.
C22_BareOpeningIsText ==
  [][AtBareOpening => StaysText]_vars

\* The part of C22 about `<` when a character follows it.
C22_BareOpeningBeforeCharacterIsText ==
  [][(AtBareOpening /\ offset + 1 < Len(text)) => StaysText]_vars

\* `x< x` has been parsed: one text token, the whole text.
C22_BareOpeningKept ==
  /\ Done
  /\ text = "x< x"
  /\ result = <<TextToken("x< x")>>

\* Where the `<` half of C22 fails: the `<` that ends the text was taken
\* for an opening tag, whose empty name is on the stack of open tags.
C22_LastCharacterOpensTag ==
  /\ InAttributes
  /\ Len(text) > 0
  /\ CharAt(text, Len(text) - 1) = "<"
  /\ Top.tag = ""
  /\ tags # <<>>
  /\ tags[Len(tags)] = ""
  /\ offset >= Len(text)


\* The text a content scan has passed over since its last token and not
\* yet flushed, as its own token, or nothing when there is none.
TextBefore ==
  IF offset > Top.startOffset
  THEN <<TextToken(SubSeq(text, Top.startOffset + 1, offset))>>
  ELSE <<>>

\* C23: a `</` followed by a character that is not a tag name character
\* is passed over like a comment: the text before it becomes a token of
\* its own, the scan goes on after the next `>` at the earliest and
\* starts its next text there, so that nothing from the `</` to that `>`
\* is in a token, and no tag is closed: the stack of open tags and the
\* activations stay as they are.
C23_BareClosingIsIgnored ==
  [][(AtBareClosing /\ offset + 2 < Len(text))
       => /\ InContent'
          /\ CallersUnchanged
          /\ Top'.content = Top.content \o TextBefore
          /\ offset' > FirstAt(">", offset)
          /\ Top'.startOffset = offset'
          /\ tags' = tags]_vars

\* `</ tagName >` has been passed over inside an open tag: the text
\* before it is the tag's only child, and the tag is open to the end.
C23_Witness ==
  /\ Done
  /\ text = "<tagName >content</ tagName >"
  /\ tags = <<"TAGNAME">>
  /\ last.op = "EndOfText"
  /\ result = <<TagToken("TAGNAME", <<>>, <<TextToken("content")>>)>>

\* More than the claim says is passed over: the scan goes on after the
\* first `>` behind the next tag name character, not after the next `>`.
C23_PassedOverBeyondNextTagEnd ==
  /\ last.op = "ClosingTagInvalid"
  /\ text = "</ >"
  /\ offset > Len(text)

(***************************************************************************)
(* Closing tags                                                            *)
(***************************************************************************)
\* The cursor of a content scan is at a closing tag: `</` and a tag name
\* character.  Its name, in upper case, ends at ClosingNameEnd, and its
\* `>` is the first one behind the name.
AtClosingTagWritten ==
  /\ AtLessThan
  /\ StartsWithAt(text, "</", offset)
  /\ offset + 2 < Len(text)
  /\ IsNameChar(CharAt(text, offset + 2))
ClosingName == toUpperCase(NameAt(text, offset + 2))
ClosingNameEnd == offset + 2 + Len(ClosingName)
ClosingTagEndAt == FirstAt(">", ClosingNameEnd)
IsOpen(name) == \E i \in DOMAIN tags : tags[i] = name
LastOpen(name) == CHOOSE i \in DOMAIN tags : tags[i] = name /\ \A j \in DOMAIN tags : tags[j] = name => j <= i

\* C24: what stands between the name of a closing tag and its `>` is
\* discarded: the step at a closing tag does what the name alone decides
\* and resumes behind the `>`, where the next text starts.  A name that
\* is not open changes nothing but the text flushed; a name that is open
\* is closed, with every tag opened after it, and the content scanned so
\* far is returned as the children of the tag whose content it is.
C24_ClosingTagAttributesAreDiscarded ==
  [][AtClosingTagWritten
       => /\ offset' = ClosingTagEndAt + 1
          /\ IF ~IsOpen(ClosingName)
             THEN /\ InContent'
                  /\ CallersUnchanged
                  /\ Top'.content = Top.content \o TextBefore
                  /\ Top'.startOffset = offset'
                  /\ tags' = tags
             ELSE /\ tags' = SubSeq(tags, 1, LastOpen(ClosingName) - 1)
                  /\ IF Len(calls) = 1
                     THEN status' = "done" /\ result' = Top.content \o TextBefore
                     ELSE /\ InContent'
                          /\ Len(calls') = Len(calls) - 2
                          /\ Top'.startOffset = offset'
                          /\ Top'.content =
                               Append(calls[Len(calls) - 2].content,
                                      TagToken(calls[Len(calls) - 1].tag,
                                               calls[Len(calls) - 1].attrs,
                                               Top.content \o TextBefore))]_vars

\* The closing tag `</tagName foo="123" bar="456">` has closed the tag:
\* the token is the one the bare `</tagName>` gives, and the stack is
\* empty.
C24_Witness ==
  /\ text = "<tagName attr=\"xyz\">content</tagName foo=\"123\" bar=\"456\">"
  /\ last.op = "ClosingTagMatched"
  /\ offset = Len(text)
  /\ tags = <<>>
  /\ InContent
  /\ Top.content = <<TagToken("TAGNAME", <<[name |-> "attr", value |-> "xyz"]>>,
                              <<TextToken("content")>>)>>


(***************************************************************************)
(* The handler calls of a formatting pass, read from the token forest      *)
(***************************************************************************)
\* Whether a handler is called for a token: always for a text token, and
\* for a tag token when its name is registered or there is a default tag
\* handler.
IsHandled(token) ==
  \/ isTextToken(token)
  \/ RegisteredFor(token.tag) # {}
  \/ Has(config, "defaultTagHandler")

\* The calls a forest asks for, in order: for each token from left to
\* right, the calls of its children and then its own, each with the
\* position of the token among its siblings, counted from 0.
RECURSIVE CallsFrom(_, _)
CallsFrom(forest, position) ==
  IF forest = <<>> THEN <<>>
  ELSE LET token == Head(forest)
           own == IF IsHandled(token)
                  THEN <<[index |-> position, token |-> token]>>
                  ELSE <<>>
           below == IF isTextToken(token) THEN <<>> ELSE CallsFrom(token.children, 0)
       IN below \o own \o CallsFrom(Tail(forest), position + 1)
ExpectedCalls == CallsFrom(result, 0)

\* C25: the index a handler is called with is the position of its token
\* among the children of its parent tag, counted from 0, and for a token
\* of the top level its position in the forest: not the number of calls
\* made before, and not the index of the whole forest.
C25_IndexIsPositionAmongSiblings ==
  isElement(output)
    => /\ Len(handlerCalls) = Len(ExpectedCalls)
       /\ \A i \in DOMAIN handlerCalls :
            handlerCalls[i].index = ExpectedCalls[i].index

\* A pass in which the third child of a tag was given index 2 after calls
\* with index 0 and 1, and the tag itself, called last, index 0.
C25_Witness ==
  /\ isElement(output)
  /\ Len(handlerCalls) >= 5
  /\ handlerCalls[Len(handlerCalls)].index = 0
  /\ Has(handlerCalls[Len(handlerCalls)].data, "name")
  /\ \E i, j, k \in DOMAIN handlerCalls :
       /\ i < j /\ j < k /\ k < Len(handlerCalls)
       /\ handlerCalls[i].index = 0
       /\ handlerCalls[j].index = 1
       /\ handlerCalls[k].index = 2
       /\ Has(handlerCalls[k].data, "name")
       /\ handlerCalls[k].data.name = "C"


(***************************************************************************)
(* The stack of open tags and the end of parse                             *)
(***************************************************************************)
\* C26: parse returns only when the cursor has reached the end of the
\* input: no closing tag makes the top-level content scan return while
\* input is left, so the text behind it is not lost.
C26_ParseCoversWholeInput ==
  Done => offset >= Len(text)

\* Where C26 fails: parse has returned at the closing tag of a tag that
\* was self-closed, and the text behind it is in no token.
C26_ReturnedBeforeTheEnd ==
  /\ Done
  /\ text = "<c/></C>x"
  /\ last.op = "ClosingTagMatched"
  /\ offset = Len(text) - 1
  /\ result = <<TagToken("C", <<>>, <<>>)>>

\* C27: the stack of open tags holds the names of the tags whose content
\* is being parsed and no other: a tag that is self-closed is taken off
\* the stack when it is returned, so when no other tag of its name is
\* open a later closing tag of that name finds nothing to close.
C27_SelfClosedTagLeavesTheStack ==
  [][last'.op = "SelfClosingTagEnd"
       => /\ Len(tags') = Len(tags) - 1
          /\ tags' = SubSeq(tags, 1, Len(tags) - 1)]_vars

\* Where C27 fails: inside the open tag A the closing tag `</C>` has found
\* the name of the self-closed `<c/>` on the stack and has ended A's
\* content, so that the `x` behind it is not a child of A.
C27_SelfClosedTagIsClosedLater ==
  /\ Done
  /\ text = "<a><c/></C>x"
  /\ tags = <<"A">>
  /\ result = <<TagToken("A", <<>>, <<TagToken("C", <<>>, <<>>)>>), TextToken("x")>>

\* The handler a token asks for: the text handler for a text token; for
\* a tag token the handler registered for its name, or else the default
\* tag handler.
HandlerOf(token) ==
  IF isTextToken(token) THEN textHandlerOf(config)
  ELSE IF RegisteredFor(token.tag) # {} THEN LastRegisteredFor(token.tag)
  ELSE "defaultTagHandler"

\* A call is the call for a token: made with the handler the token asks
\* for and, as data, with the text of a text token, or with the name, the
\* attributes and one formatted child for each child of a tag token.
IsCallFor(call, token) ==
  /\ call.handler = HandlerOf(token)
  /\ IF isTextToken(token)
     THEN call.data = token
     ELSE /\ Has(call.data, "name")
          /\ call.data.name = token.tag
          /\ call.data.attrs = token.attrs
          /\ Len(call.data.children) = Len(token.children)

\* C28: in a formatting pass every token causes one handler call, or none
\* when it is a tag with no registered handler and there is no default tag
\* handler; the calls are made token by token from left to right, those
\* of the children of a tag before the call for the tag itself.
C28_OneCallPerTokenChildrenFirst ==
  isElement(output)
    => /\ Len(handlerCalls) = Len(ExpectedCalls)
       /\ \A i \in DOMAIN handlerCalls :
            IsCallFor(handlerCalls[i], ExpectedCalls[i].token)

\* A pass over a tag with three children, one of them a tag with no
\* handler: the calls are those for `x`, `y`, the tag C and, last, the
\* tag A.
C28_Witness ==
  /\ isElement(output)
  /\ ~Has(config, "defaultTagHandler")
  /\ text = "<a>x<b>y</b><c 2 k='v' 1/></a>"
  /\ [i \in DOMAIN handlerCalls |-> handlerCalls[i].handler]
       = <<textHandlerOf(config), textHandlerOf(config), "tagHandlers.c", "tagHandlers.A">>
  /\ Len(handlerCalls[4].data.children) = 3


(***************************************************************************)
(* A Tokenizer used more than once                                         *)
(***************************************************************************)
\* Inputs for a Tokenizer that is used again: well-formed ones, and ones
\* that leave names on the stack of open tags or lose them early.
ReuseTexts ==
  { "", "x", "<a>x</a>", "<c/>", "x</C>y", "<a>x", "<a k=\"x", "<a k=v f>x</A>y",
    "<a><b>x</a>y", "</a>x</b>", "<c/></C>x", "x</ a>y", "x< y", "<b>x</a>y" }

ReuseInit ==
  /\ text \in ReuseTexts
  /\ offset = 0
  /\ tags = <<>>
  /\ calls = <<>>
  /\ status = "idle"
  /\ result = <<>>
  /\ last = [op |-> "new", turn |-> 0]
  /\ failure = <<>>
  /\ config = EmptyObject
  /\ NotRendered

\* The first parse of a new Tokenizer, then parses of any inputs on the
\* same Tokenizer.
newTokenizerParse == status = "idle" /\ parse

ReuseNext ==
  \/ newTokenizerParse
  \/ \E newText \in ReuseTexts : parseText(newText)
  \/ Scan

ReuseSpec == ReuseInit /\ [][ReuseNext]_vars

\* C29: parse keeps nothing from one call to the next: when a Tokenizer
\* that has parsed other inputs since, whatever they left on the stack of
\* open tags, parses again the input it parsed first, as a new Tokenizer,
\* it returns the same tokens.
C29_ParseKeepsNoState ==
  (Done /\ fresh # NoParse /\ fresh.text = text) => result = fresh.tokens

\* `x</C>y` has been parsed again by a Tokenizer on whose stack the parse
\* before had left the name C: `</C>` closed nothing.
C29_Witness ==
  /\ Done
  /\ fresh # NoParse
  /\ fresh.text = "x</C>y"
  /\ text = "x</C>y"
  /\ fresh.stale = <<"C">>
  /\ result = <<TextToken("x"), TextToken("y")>>


(***************************************************************************)
(* src/src/helpers/utils.ts                                                *)
(*                                                                         *)
(* A React element is [type, props, children], children being what React   *)
(* keeps as props.children: absent when the element was made with no       *)
(* child, the one child when made with one, an array when made with more.  *)
(* A string is [text |-> s], as a text token; null is Null.                *)
(***************************************************************************)
FragmentType == Fragment
Null == [null |-> TRUE]
NoValue == [undefined |-> TRUE]
isString(value) == Has(value, "text")

\* createElement(type, props) with no child: props.children is absent.
createEmptyElement(type, elementProps) == [type |-> type, props |-> elementProps]

\* element.props.children
propsChildren(element) ==
  IF Has(element, "children") THEN element.children ELSE NoValue

\* How a call ends: with a value returned, or with an error thrown.
Returns(value) == [returned |-> value]
Throws(error) == [threw |-> error]

\* A getOnlyPlainTextChild that reads props.children with `?.`.
getOnlyPlainTextChildGuarded(children) ==
  IF Len(children) # 1 THEN Returns(NoValue)
  ELSE LET child == propsChildren(children[1])
       IN IF isArray(child) THEN Returns(NoValue)
          ELSE IF ~Has(child, "type") \/ child.type # FragmentType THEN Returns(NoValue)
          ELSE IF ~isString(propsChildren(child)) THEN Returns(NoValue)
          ELSE Returns(propsChildren(child))

\* A getOnlyPlainTextChild that takes the first child of several.
getOnlyPlainTextChildOfFirst(children) ==
  IF Len(children) = 0 THEN Returns(NoValue)
  ELSE LET child == propsChildren(children[1])
       IN IF isArray(child) THEN Returns(NoValue)
          ELSE IF child = NoValue \/ child = Null THEN Throws("TypeError")
          ELSE IF ~Has(child, "type") \/ child.type # FragmentType THEN Returns(NoValue)
          ELSE IF ~isString(propsChildren(child)) THEN Returns(NoValue)
          ELSE Returns(propsChildren(child))

\* getOnlyPlainTextChild(children): the conjuncts of isPlainTextChild in
\* order.  Reading `.type` of undefined or null throws a TypeError; of a
\* string it gives undefined.
getOnlyPlainTextChild(children) ==
  IF Len(children) # 1 THEN Returns(NoValue)
  ELSE LET child == propsChildren(children[1])
       IN IF isArray(child) THEN Returns(NoValue)
          ELSE IF child = NoValue \/ child = Null THEN Throws("TypeError")
          ELSE IF ~Has(child, "type") \/ child.type # FragmentType THEN Returns(NoValue)
          ELSE IF ~isString(propsChildren(child)) THEN Returns(NoValue)
          ELSE Returns(propsChildren(child))

\* The elements a tag handler may find among its children.
PlainTexts == {TextToken("Plain text"), TextToken("")}
TextFragments == {createElement(Fragment, EmptyObject, t) : t \in PlainTexts}
Elements ==
  TextFragments
    \cup {createElement(type, EmptyObject, f) : type \in {"div", Fragment}, f \in TextFragments}
    \cup {createEmptyElement(type, EmptyObject) : type \in {"br", Fragment}}
    \cup {createElement("div", EmptyObject, child) :
            child \in {Null, TextToken("text"),
                       createElement("span", EmptyObject, TextToken("Foobar")),
                       createEmptyElement(Fragment, EmptyObject),
                       createElement(Fragment, EmptyObject,
                                     Array(<<TextToken("a"), TextToken("b")>>)),
                       Array(<<createElement(Fragment, EmptyObject, TextToken("child 1")),
                               createElement(Fragment, EmptyObject, TextToken("child 2"))>>)}}

\* Longest children list getOnlyPlainTextChild is called with.
MaxChildren == 2

RECURSIVE ChildrenLists(_)
ChildrenLists(n) ==
  IF n = 0 THEN {<<>>}
  ELSE LET shorter == ChildrenLists(n - 1)
       IN shorter \cup {Append(list, e) : list \in shorter, e \in Elements}

UtilsInit ==
  /\ text = ""
  /\ offset = 0
  /\ tags = <<>>
  /\ calls = <<>>
  /\ status = "idle"
  /\ result = <<>>
  /\ last = [op |-> "new", turn |-> 0]
  /\ failure = <<>>
  /\ config = EmptyObject
  /\ props = EmptyObject
  /\ hooks = NoHooks
  /\ output = NoOutput
  /\ handlerCalls = <<>>
  /\ previous = NoRender
  /\ hookCalls = 0
  /\ fresh = NoParse
  /\ childrenArg \in ChildrenLists(MaxChildren)
  /\ returned = NotCalled

\* The call getOnlyPlainTextChild(childrenArg).
callGetOnlyPlainTextChild ==
  /\ returned = NotCalled
  /\ returned' = getOnlyPlainTextChild(childrenArg)
  /\ last' = Step("getOnlyPlainTextChild")
  /\ UNCHANGED <<text, offset, tags, calls, status, result, failure, config, props,
                 hooks, output, handlerCalls, previous, hookCalls, fresh, childrenArg>>

UtilsNext == callGetOnlyPlainTextChild

UtilsSpec == UtilsInit /\ [][UtilsNext]_vars

\* The children are one element whose only child is a Fragment that
\* holds a string.
IsPlainTextWrapper(children) ==
  /\ Len(children) = 1
  /\ Has(children[1], "children")
  /\ Has(children[1].children, "type")
  /\ children[1].children.type = Fragment
  /\ Has(children[1].children, "children")
  /\ Has(children[1].children.children, "text")

\* C30: getOnlyPlainTextChild returns the text when the children are one
\* element whose only child is a Fragment holding a string, and returns
\* undefined in every other case.
C30_OnlyPlainTextChild ==
  returned # NotCalled
    => returned = IF IsPlainTextWrapper(childrenArg)
                  THEN Returns(childrenArg[1].children.children)
                  ELSE Returns(NoValue)

\* C30 for the children the tests call it with and every other list whose
\* single element has a child that is not null.
C30_OnlyPlainTextChildOfElementsWithChild ==
  (returned # NotCalled
     /\ (Len(childrenArg) = 1
           => Has(childrenArg[1], "children") /\ childrenArg[1].children # Null))
    => returned = IF IsPlainTextWrapper(childrenArg)
                  THEN Returns(childrenArg[1].children.children)
                  ELSE Returns(NoValue)

\* The text has been returned for a <div> around a Fragment with text.
C30_TextReturned ==
  /\ childrenArg = <<createElement("div", EmptyObject,
                                   createElement(Fragment, EmptyObject,
                                                 TextToken("Plain text")))>>
  /\ returned = Returns(TextToken("Plain text"))

\* Where C30 fails: the call with one element that has no children has
\* thrown.
C30_ThrownForElementWithoutChildren ==
  /\ childrenArg = <<createEmptyElement("br", EmptyObject)>>
  /\ returned = Throws("TypeError")

====
